---- MODULE Spec2Model ----
(***************************************************************************)
(* Model of the streams User state machine (streams/src/api/user.rs), its  *)
(* CursorStore (streams/src/api/cursor_store.rs) and the transport it      *)
(* talks to (lets/src/transport/mod.rs over a bucket of messages).         *)
(*                                                                         *)
(* Several User instances share one transport.  Every public operation of  *)
(* User is one action; the handlers and the cursor-store methods are       *)
(* operators computed the way the code computes them.                      *)
(***************************************************************************)
EXTENDS Integers, Sequences, FiniteSets, TLC

VARIABLES users, transport, last

vars == <<users, transport, last>>

----------------------------------------------------------------------------
(* Program constants                                                       *)

ANN_MESSAGE_NUM == 0
SUB_MESSAGE_NUM == 0
INIT_MESSAGE_NUM == 1

----------------------------------------------------------------------------
(* Bounds                                                                  *)

\* Total number of messages the transport may hold.
MaxMsgs == 3

\* The same, in the runs restricted to announcements, branches and keyloads.
MaxKeyloadMsgs == 4

\* The same, in the runs restricted to subscriptions and keyloads.
MaxSubscribeMsgs == 4

\* The largest cursor in the runs of the cursor store alone.
MaxCursor == 2

\* The same, in the runs that remember each sender's view.
MaxViewMsgs == 3

\* The same, in the runs of the transport alone.
MaxBucketMsgs == 3

\* The same, in the runs where a party outside the stream sends too.
MaxForeignMsgs == 3

\* User instances sharing the transport, and the identifier each one owns.
Users == {"A", "B"}

\* Identifiers that may be named in keyloads (a superset of the users').
Ids == {"A", "B", "C"}

Topics == {"t1", "t2"}

\* PermissionDuration: Perpetual, and one representative UntilSequence(n).
Durations == {"Perpetual", "Until"}

----------------------------------------------------------------------------
(* Option<T>: None is the empty sequence, Some(x) the one-element one.     *)

None == <<>>

Some(x) == <<x>>

IsSome(o) == o # <<>>

Get(o) == o[1]

(* Maps (hashbrown::HashMap) are functions with a finite domain.           *)

EmptyMap == [x \in {} |-> 0]

Put(f, k, v) == [x \in (DOMAIN f) \cup {k} |-> IF x = k THEN v ELSE f[x]]

Del(f, k) == [x \in (DOMAIN f) \ {k} |-> f[x]]

----------------------------------------------------------------------------
(* Permissioned<Identifier>                                                *)

Read(id) == [tag |-> "Read", id |-> id, dur |-> "-"]

ReadWrite(id, dur) == [tag |-> "ReadWrite", id |-> id, dur |-> dur]

Admin(id) == [tag |-> "Admin", id |-> id, dur |-> "-"]

PermsOf(id) == {Read(id), Admin(id)} \cup {ReadWrite(id, d) : d \in Durations}

is_readonly(p) == p.tag = "Read"

is_admin(p) == p.tag = "Admin"

----------------------------------------------------------------------------
(* Addresses.  AppAddr and MsgId are sponge hashes of their inputs; the    *)
(* model keeps the inputs, so two ids are equal iff their inputs are.      *)

AppAddrGen(id, topic) == <<id, topic>>

MsgIdGen(base, id, topic, cursor) == <<base, id, topic, cursor>>

Address(base, msgid) == [base |-> base, relative |-> msgid]

\* MsgId::default(), the latest_link of a branch that has none yet.
DefaultMsgId == <<<<"", "">>, "", "", 0>>

(* A sponge snapshot is identified by the wire message whose wrap or       *)
(* unwrap produced it: its address and its position among the messages     *)
(* stored there.  DefaultSpongos is the canonical initial state.           *)

Spongos(addr, n) == [at |-> addr.relative, n |-> n]

DefaultSpongos == [at |-> DefaultMsgId, n |-> 0]

----------------------------------------------------------------------------
(* CursorStore                                                             *)

DefaultInnerCursorStore == [cursors |-> EmptyMap, latest_link |-> DefaultMsgId]

\* CursorStore::new_branch: HashMap::insert of an empty branch.
new_branch_store(cs, topic) == Put(cs, topic, DefaultInnerCursorStore)

\* What CursorStore::new_branch returns: insert(..).is_none().
new_branch_returns(cs, topic) == topic \notin DOMAIN cs

\* The entries of a branch whose permission names id.
EntriesOf(cs, topic, id) ==
    IF topic \in DOMAIN cs
    THEN {p \in DOMAIN cs[topic].cursors : p.id = id}
    ELSE {}

\* `find` over the branch's entries.  The iteration order of the map is
\* arbitrary; the entry found is unique as long as OneEntryPerIdentifier
\* holds, which is checked on this model.
get_permission(cs, topic, id) ==
    IF EntriesOf(cs, topic, id) = {}
    THEN None
    ELSE Some(CHOOSE p \in EntriesOf(cs, topic, id) : TRUE)

get_cursor(cs, topic, id) ==
    IF EntriesOf(cs, topic, id) = {}
    THEN None
    ELSE Some(cs[topic].cursors[CHOOSE p \in EntriesOf(cs, topic, id) : TRUE])

\* remove that stops at the first branch that holds an entry for id.
remove_first_branch(cs, id) ==
    LET holding == {t \in DOMAIN cs : EntriesOf(cs, t, id) # {}}
        first == CHOOSE t \in holding : TRUE
    IN  [t \in DOMAIN cs |->
            IF holding # {} /\ t = first
            THEN [cs[t] EXCEPT !.cursors = Del(@, CHOOSE p \in EntriesOf(cs, t, id) : TRUE)]
            ELSE cs[t]]

\* CursorStore::remove: in every branch, the entry found for id is removed.
remove(cs, id) ==
    [t \in DOMAIN cs |->
        IF EntriesOf(cs, t, id) = {}
        THEN cs[t]
        ELSE [cs[t] EXCEPT !.cursors = Del(@, CHOOSE p \in EntriesOf(cs, t, id) : TRUE)]]

\* What CursorStore::remove returns: removals.count() > 0.
remove_returns(cs, id) == \E t \in DOMAIN cs : EntriesOf(cs, t, id) # {}

\* insert_cursor that stores its cursor argument also when it re-binds.
insert_cursor_taking_argument(cs, topic, perm, cursor) ==
    LET old == get_permission(cs, topic, perm.id)
        rebind == IsSome(old) /\ Get(old) # perm
        cs1 == IF rebind THEN remove(cs, perm.id) ELSE cs
    IN  IF topic \in DOMAIN cs1
        THEN [cs1 EXCEPT ![topic].cursors = Put(@, perm, cursor)]
        ELSE cs1

\* insert_cursor without the removal of the entry it re-binds.
insert_cursor_keeping_old(cs, topic, perm, cursor) ==
    LET old == get_permission(cs, topic, perm.id)
        rebind == IsSome(old) /\ Get(old) # perm
        kept == IF rebind THEN Get(get_cursor(cs, topic, perm.id)) ELSE cursor
    IN  IF topic \in DOMAIN cs
        THEN [cs EXCEPT ![topic].cursors = Put(@, perm, kept)]
        ELSE cs

\* CursorStore::insert_cursor.
insert_cursor(cs, topic, perm, cursor) ==
    LET old == get_permission(cs, topic, perm.id)
        rebind == IsSome(old) /\ Get(old) # perm
        kept == IF rebind THEN Get(get_cursor(cs, topic, perm.id)) ELSE cursor
        cs1 == IF rebind THEN remove(cs, perm.id) ELSE cs
    IN  IF topic \in DOMAIN cs1
        THEN [cs1 EXCEPT ![topic].cursors = Put(@, perm, kept)]
        ELSE cs1

\* insert_cursor for every permission of a collected Vec, in its order.
RECURSIVE insert_all(_, _, _, _)
insert_all(cs, topic, perms, cursor) ==
    IF perms = {}
    THEN cs
    ELSE LET p == CHOOSE q \in perms : TRUE
         IN  insert_all(insert_cursor(cs, topic, p, cursor), topic, perms \ {p}, cursor)

set_latest_link(cs, topic, link) ==
    IF topic \in DOMAIN cs
    THEN [cs EXCEPT ![topic].latest_link = link]
    ELSE Put(cs, topic, [cursors |-> EmptyMap, latest_link |-> link])

get_latest_link(cs, topic) ==
    IF topic \in DOMAIN cs THEN Some(cs[topic].latest_link) ELSE None

\* cursors_by_topic(topic), collected to the Vec of its permissions.
permissions_by_topic(cs, topic) == DOMAIN cs[topic].cursors

----------------------------------------------------------------------------
(* Transport: Transport::recv_message over a bucket of messages.           *)

send_message_overwriting(t, addr, msg) == Put(t, addr, <<msg>>)

send_message(t, addr, msg) ==
    IF addr \in DOMAIN t
    THEN [t EXCEPT ![addr] = Append(@, msg)]
    ELSE Put(t, addr, <<msg>>)

recv_messages(t, addr) ==
    IF addr \in DOMAIN t
    THEN [ok |-> TRUE, msgs |-> t[addr]]
    ELSE [ok |-> FALSE, msgs |-> <<>>]

\* Err("not found") when there is none, Err("more than one") when several.
recv_message(t, addr) ==
    LET r == recv_messages(t, addr)
    IN  IF ~r.ok \/ Len(r.msgs) = 0
        THEN [ok |-> FALSE, err |-> "not found", msg |-> None]
        ELSE IF Len(r.msgs) > 1
        THEN [ok |-> FALSE, err |-> "more than one", msg |-> None]
        ELSE [ok |-> TRUE, err |-> "", msg |-> Some(r.msgs[Len(r.msgs)])]

\* BucketTransport::recv_message: recv_messages, then try_or!(..).unwrap(),
\* which aborts when more than the popped message was stored.
bucket_recv_message(t, addr) ==
    LET r == recv_messages(t, addr)
    IN  IF ~r.ok \/ Len(r.msgs) = 0
        THEN [ok |-> FALSE, err |-> "not found", msg |-> None, aborted |-> FALSE]
        ELSE IF Len(r.msgs) > 1
        THEN [ok |-> FALSE, err |-> "", msg |-> None, aborted |-> TRUE]
        ELSE [ok |-> TRUE, err |-> "", msg |-> Some(r.msgs[Len(r.msgs)]),
              aborted |-> FALSE]

\* Number of messages the transport holds.
RECURSIVE CountMsgs(_, _)
CountMsgs(t, addrs) ==
    IF addrs = {}
    THEN 0
    ELSE LET a == CHOOSE x \in addrs : TRUE
         IN  Len(t[a]) + CountMsgs(t, addrs \ {a})

TotalMsgs == CountMsgs(transport, DOMAIN transport)

----------------------------------------------------------------------------
(* Wire messages: HDF fields, then the body fields of the seven contents.  *)
(* prev is the sponge snapshot the sender wrapped against, spongos the one *)
(* the wrap ended with; an unwrap against another snapshot fails.          *)

ANNOUNCEMENT == "announcement"

BRANCH_ANNOUNCEMENT == "branch_announcement"

SUBSCRIPTION == "subscription"

UNSUBSCRIPTION == "unsubscription"

KEYLOAD == "keyload"

SIGNED_PACKET == "signed_packet"

TAGGED_PACKET == "tagged_packet"

NoBody == [id |-> "", topic |-> "", to |-> "", subscribers |-> {}]

Message(type, seq, publisher, topic, linked, prev, spongos, body) ==
    [type |-> type, seq |-> seq, publisher |-> publisher, topic |-> topic,
     linked |-> linked, prev |-> prev, spongos |-> spongos, body |-> body]

----------------------------------------------------------------------------
(* User state                                                              *)

\* User::new
NewUser(id, lean) ==
    [user_id |-> Some(id),
     stream_address |-> None,
     author_identifier |-> None,
     cursor_store |-> EmptyMap,
     subscribers |-> {},
     spongos_store |-> EmptyMap,
     base_branch |-> "",
     lean |-> lean,
     topics |-> {}]

identifier(st) == Get(st.user_id)

permission(st, topic) == get_permission(st.cursor_store, topic, identifier(st))

cursor(st, topic) == get_cursor(st.cursor_store, topic, identifier(st))

next_cursor(st, topic) ==
    IF IsSome(cursor(st, topic)) THEN Some(Get(cursor(st, topic)) + 1) ELSE None

\* TopicHash is a hash of the topic; the header field keeps the topic.
topic_by_hash(st, hash) == IF hash \in st.topics THEN Some(hash) ELSE None

\* should_store_cursor requiring the subscriber to be tracked already.
should_store_cursor_tracked_only(st, topic, subscriber) ==
    LET p == get_permission(st.cursor_store, topic, subscriber.id)
    IN  ~is_readonly(subscriber) /\ IsSome(p) /\ Get(p) # subscriber

should_store_cursor(st, topic, subscriber) ==
    LET p == get_permission(st.cursor_store, topic, subscriber.id)
        tracked_and_equal == IsSome(p) /\ Get(p) = subscriber
    IN  ~is_readonly(subscriber) /\ ~tracked_and_equal

\* store_spongos that, in lean mode, keeps nothing but the announcement.
store_spongos_lean_drops(st, msg_address, spongos, linked_msg_address) ==
    LET is_stream_address ==
            IsSome(st.stream_address)
            /\ Get(st.stream_address).relative = linked_msg_address
    IN  IF st.lean /\ ~is_stream_address
        THEN [st EXCEPT !.spongos_store = Del(@, linked_msg_address)]
        ELSE [st EXCEPT !.spongos_store = Put(@, msg_address, spongos)]

\* store_spongos that, in lean mode, evicts the announcement as well.
store_spongos_evicting_announcement(st, msg_address, spongos, linked_msg_address) ==
    LET kept == IF st.lean
                THEN Del(st.spongos_store, linked_msg_address)
                ELSE st.spongos_store
    IN  [st EXCEPT !.spongos_store = Put(kept, msg_address, spongos)]

store_spongos(st, msg_address, spongos, linked_msg_address) ==
    LET is_stream_address ==
            IsSome(st.stream_address)
            /\ Get(st.stream_address).relative = linked_msg_address
        kept == IF st.lean /\ ~is_stream_address
                THEN Del(st.spongos_store, linked_msg_address)
                ELSE st.spongos_store
    IN  [st EXCEPT !.spongos_store = Put(kept, msg_address, spongos)]

spongos_get(st, msgid) ==
    IF msgid \in DOMAIN st.spongos_store THEN Some(st.spongos_store[msgid]) ELSE None

\* Result of a handler: the state it leaves and what it returns.
Handled(st, result, err) == [state |-> st, result |-> result, err |-> err]

----------------------------------------------------------------------------
(* Unwrapping.  The sponge of the linked message is joined before the body *)
(* is read, so a body wrapped against another snapshot does not verify.    *)

unwrap_ok(msg, linked_spongos) == msg.prev = linked_spongos

\* The subscription body is masked to the author's key-exchange key.
subscription_unwrap_ok(st, msg, linked_spongos) ==
    msg.prev = linked_spongos /\ msg.body.to = identifier(st)

----------------------------------------------------------------------------
(* Handlers                                                                *)

\* handle_announcement that leaves the author identifier unset.
handle_announcement_without_author(st, address, msg) ==
    LET publisher == msg.publisher
        topic == msg.body.topic
        cs1 == new_branch_store(st.cursor_store, topic)
        cs2 == insert_cursor(cs1, topic, Admin(publisher), INIT_MESSAGE_NUM)
        cs3 == set_latest_link(cs2, topic, address.relative)
    IN  Handled([st EXCEPT !.cursor_store = cs3,
                           !.topics = @ \cup {topic},
                           !.spongos_store = Put(@, address.relative, msg.spongos),
                           !.base_branch = topic,
                           !.stream_address = Some(address)],
                "Ok", "")

\* handle_announcement that keeps a branch it already has.
handle_announcement_keeping_branch(st, address, msg) ==
    LET publisher == msg.publisher
        topic == msg.body.topic
        cs1 == IF topic \in DOMAIN st.cursor_store
               THEN st.cursor_store
               ELSE new_branch_store(st.cursor_store, topic)
        cs2 == insert_cursor(cs1, topic, Admin(publisher), INIT_MESSAGE_NUM)
        cs3 == set_latest_link(cs2, topic, address.relative)
    IN  Handled([st EXCEPT !.cursor_store = cs3,
                           !.topics = @ \cup {topic},
                           !.spongos_store = Put(@, address.relative, msg.spongos),
                           !.author_identifier = Some(msg.body.id),
                           !.base_branch = topic,
                           !.stream_address = Some(address)],
                "Ok", "")

handle_announcement(st, address, msg) ==
    LET publisher == msg.publisher
        topic == msg.body.topic
        cs1 == new_branch_store(st.cursor_store, topic)
        cs2 == insert_cursor(cs1, topic, Admin(publisher), INIT_MESSAGE_NUM)
        cs3 == set_latest_link(cs2, topic, address.relative)
    IN  Handled([st EXCEPT !.cursor_store = cs3,
                           !.topics = @ \cup {topic},
                           !.spongos_store = Put(@, address.relative, msg.spongos),
                           !.author_identifier = Some(msg.body.id),
                           !.base_branch = topic,
                           !.stream_address = Some(address)],
                "Ok", "")

\* handle_branch_announcement with the publisher's cursor stored only once
\* the body has been unwrapped.
handle_branch_announcement_cursor_last(st, address, msg) ==
    LET prev_topic == topic_by_hash(st, msg.topic)
        publisher == msg.publisher
        perm == get_permission(st.cursor_store, Get(prev_topic), publisher)
        linked == spongos_get(st, Get(msg.linked))
        st1 == [st EXCEPT !.cursor_store =
                    insert_cursor(@, Get(prev_topic), Get(perm), msg.seq)]
        new_topic == msg.body.topic
        st2 == store_spongos(st1, address.relative, msg.spongos, Get(msg.linked))
        cs2 == new_branch_store(st2.cursor_store, new_topic)
        cs3 == insert_all(cs2, new_topic, permissions_by_topic(cs2, Get(prev_topic)),
                          INIT_MESSAGE_NUM)
        cs4 == set_latest_link(cs3, new_topic, address.relative)
    IN  IF ~IsSome(prev_topic) THEN Handled(st, "Err", "unknown topic")
        ELSE IF ~IsSome(perm) THEN Handled(st, "Err", "not a publisher")
        ELSE IF ~IsSome(msg.linked) THEN Handled(st, "Err", "no linked address")
        ELSE IF ~IsSome(linked) THEN Handled(st, "Orphan", "")
        ELSE IF ~unwrap_ok(msg, Get(linked)) THEN Handled(st, "Err", "unwrap")
        ELSE Handled([st2 EXCEPT !.cursor_store = cs4,
                                 !.topics = @ \cup {new_topic}],
                     "Ok", "")

handle_branch_announcement(st, address, msg) ==
    LET prev_topic == topic_by_hash(st, msg.topic)
        publisher == msg.publisher
        perm == get_permission(st.cursor_store, Get(prev_topic), publisher)
        st1 == [st EXCEPT !.cursor_store =
                    insert_cursor(@, Get(prev_topic), Get(perm), msg.seq)]
        linked == spongos_get(st1, Get(msg.linked))
        new_topic == msg.body.topic
        st2 == store_spongos(st1, address.relative, msg.spongos, Get(msg.linked))
        cs2 == new_branch_store(st2.cursor_store, new_topic)
        cs3 == insert_all(cs2, new_topic, permissions_by_topic(cs2, Get(prev_topic)),
                          INIT_MESSAGE_NUM)
        cs4 == set_latest_link(cs3, new_topic, address.relative)
    IN  IF ~IsSome(prev_topic) THEN Handled(st, "Err", "unknown topic")
        ELSE IF ~IsSome(perm) THEN Handled(st, "Err", "not a publisher")
        ELSE IF ~IsSome(msg.linked) THEN Handled(st1, "Err", "no linked address")
        ELSE IF ~IsSome(linked) THEN Handled(st1, "Orphan", "")
        ELSE IF ~unwrap_ok(msg, Get(linked)) THEN Handled(st1, "Err", "unwrap")
        ELSE Handled([st2 EXCEPT !.cursor_store = cs4,
                                 !.topics = @ \cup {new_topic}],
                     "Ok", "")

\* handle_subscription that also stores the snapshot of the subscription.
handle_subscription_storing(st, address, msg) ==
    LET linked == spongos_get(st, Get(msg.linked))
        st1 == store_spongos(st, address.relative, msg.spongos, Get(msg.linked))
    IN  IF ~IsSome(msg.linked) THEN Handled(st, "Err", "no linked address")
        ELSE IF ~IsSome(linked) THEN Handled(st, "Orphan", "")
        ELSE IF ~IsSome(st.user_id) THEN Handled(st, "Err", "no identity")
        ELSE IF ~subscription_unwrap_ok(st, msg, Get(linked))
        THEN Handled(st, "Err", "unwrap")
        ELSE Handled([st1 EXCEPT !.subscribers = @ \cup {msg.body.id}], "Ok", "")

handle_subscription(st, address, msg) ==
    LET linked == spongos_get(st, Get(msg.linked))
    IN  IF ~IsSome(msg.linked) THEN Handled(st, "Err", "no linked address")
        ELSE IF ~IsSome(linked) THEN Handled(st, "Orphan", "")
        ELSE IF ~IsSome(st.user_id) THEN Handled(st, "Err", "no identity")
        ELSE IF ~subscription_unwrap_ok(st, msg, Get(linked))
        THEN Handled(st, "Err", "unwrap")
        ELSE Handled([st EXCEPT !.subscribers = @ \cup {msg.body.id}], "Ok", "")

\* handle_unsubscription that stores the publisher's cursor as the handlers
\* of sequenced messages do.
handle_unsubscription_storing_cursor(st, address, msg) ==
    LET linked == spongos_get(st, Get(msg.linked))
        perm == get_permission(st.cursor_store, st.base_branch, msg.publisher)
        st0 == IF IsSome(perm)
               THEN [st EXCEPT !.cursor_store =
                        insert_cursor(@, st.base_branch, Get(perm), msg.seq)]
               ELSE st
        st1 == store_spongos(st0, address.relative, msg.spongos, Get(msg.linked))
    IN  IF ~IsSome(msg.linked) THEN Handled(st, "Err", "no linked address")
        ELSE IF ~IsSome(linked) THEN Handled(st, "Orphan", "")
        ELSE IF ~unwrap_ok(msg, Get(linked)) THEN Handled(st, "Err", "unwrap")
        ELSE Handled([st1 EXCEPT !.subscribers = @ \ {msg.body.id}], "Ok", "")

handle_unsubscription(st, address, msg) ==
    LET linked == spongos_get(st, Get(msg.linked))
        st1 == store_spongos(st, address.relative, msg.spongos, Get(msg.linked))
    IN  IF ~IsSome(msg.linked) THEN Handled(st, "Err", "no linked address")
        ELSE IF ~IsSome(linked) THEN Handled(st, "Orphan", "")
        ELSE IF ~unwrap_ok(msg, Get(linked)) THEN Handled(st, "Err", "unwrap")
        ELSE Handled([st1 EXCEPT !.subscribers = @ \ {msg.body.id}], "Ok", "")

\* First loop of handle_keyload: stored permissions that the keyload omits
\* and that are not the author's are re-bound to Read.
RECURSIVE demote_omitted(_, _, _, _, _)
demote_omitted(cs, topic, stored, author, subscribers) ==
    IF stored = {}
    THEN cs
    ELSE LET e == CHOOSE x \in stored : TRUE
             perm == e[1]
             keep == perm.id = author \/ \E p \in subscribers : p.id = perm.id
             cs1 == IF keep THEN cs ELSE insert_cursor(cs, topic, Read(perm.id), e[2])
         IN  demote_omitted(cs1, topic, stored \ {e}, author, subscribers)

\* Second loop of handle_keyload, and the loop of send_keyload.
RECURSIVE store_subscribers(_, _, _)
store_subscribers(st, topic, subscribers) ==
    IF subscribers = {}
    THEN st
    ELSE LET s == CHOOSE x \in subscribers : TRUE
             st1 == IF should_store_cursor(st, topic, s)
                    THEN [st EXCEPT !.cursor_store =
                              insert_cursor(@, topic, s, INIT_MESSAGE_NUM)]
                    ELSE st
         IN  store_subscribers(st1, topic, subscribers \ {s})

\* handle_keyload with the publisher's cursor updated before the admin check.
handle_keyload_cursor_first(st, address, msg) ==
    LET topic == topic_by_hash(st, msg.topic)
        publisher == msg.publisher
        perm == get_permission(st.cursor_store, Get(topic), publisher)
        st1 == [st EXCEPT !.cursor_store =
                    insert_cursor(@, Get(topic), Admin(publisher), msg.seq)]
        author_identifier == Get(st.author_identifier)
        announcement_spongos == spongos_get(st1, Get(st.stream_address).relative)
        st2 == [st1 EXCEPT !.spongos_store = Put(@, address.relative, msg.spongos)]
        subscribers == msg.body.subscribers
        stored == {<<p, st2.cursor_store[Get(topic)].cursors[p]>> :
                       p \in permissions_by_topic(st2.cursor_store, Get(topic))}
        st3 == [st2 EXCEPT !.cursor_store =
                    demote_omitted(@, Get(topic), stored, author_identifier, subscribers)]
        st4 == store_subscribers(st3, Get(topic), subscribers)
        st5 == [st4 EXCEPT !.cursor_store =
                    set_latest_link(@, Get(topic), address.relative)]
    IN  IF ~IsSome(st.stream_address) THEN Handled(st, "Err", "no stream")
        ELSE IF ~IsSome(topic) THEN Handled(st, "Err", "unknown topic")
        ELSE IF ~IsSome(perm) THEN Handled(st, "Err", "no cursor")
        ELSE IF ~is_admin(Get(perm)) THEN Handled(st1, "Err", "not admin")
        ELSE IF ~IsSome(announcement_spongos) THEN Handled(st1, "Panic", "no announcement spongos")
        ELSE IF ~unwrap_ok(msg, Get(announcement_spongos)) THEN Handled(st1, "Err", "unwrap")
        ELSE Handled(st5, "Ok", "")

\* handle_keyload that returns an orphan when the snapshot of the linked
\* message is not in the store, as the handlers of packets do.
handle_keyload_needing_linked(st, address, msg) ==
    LET topic == topic_by_hash(st, msg.topic)
        publisher == msg.publisher
        perm == get_permission(st.cursor_store, Get(topic), publisher)
        st1 == [st EXCEPT !.cursor_store =
                    insert_cursor(@, Get(topic), Admin(publisher), msg.seq)]
        author_identifier == Get(st.author_identifier)
        announcement_spongos == spongos_get(st1, Get(st.stream_address).relative)
        st2 == [st1 EXCEPT !.spongos_store = Put(@, address.relative, msg.spongos)]
        subscribers == msg.body.subscribers
        stored == {<<p, st2.cursor_store[Get(topic)].cursors[p]>> :
                       p \in permissions_by_topic(st2.cursor_store, Get(topic))}
        st3 == [st2 EXCEPT !.cursor_store =
                    demote_omitted(@, Get(topic), stored, author_identifier, subscribers)]
        st4 == store_subscribers(st3, Get(topic), subscribers)
        st5 == [st4 EXCEPT !.cursor_store =
                    set_latest_link(@, Get(topic), address.relative)]
    IN  IF ~IsSome(st.stream_address) THEN Handled(st, "Err", "no stream")
        ELSE IF ~IsSome(topic) THEN Handled(st, "Err", "unknown topic")
        ELSE IF ~IsSome(perm) THEN Handled(st, "Err", "no cursor")
        ELSE IF ~is_admin(Get(perm)) THEN Handled(st, "Err", "not admin")
        ELSE IF ~IsSome(spongos_get(st1, Get(msg.linked))) THEN Handled(st1, "Orphan", "")
        ELSE IF ~IsSome(announcement_spongos) THEN Handled(st1, "Panic", "no announcement spongos")
        ELSE IF ~unwrap_ok(msg, Get(announcement_spongos)) THEN Handled(st1, "Err", "unwrap")
        ELSE Handled(st5, "Ok", "")

handle_keyload(st, address, msg) ==
    LET topic == topic_by_hash(st, msg.topic)
        publisher == msg.publisher
        perm == get_permission(st.cursor_store, Get(topic), publisher)
        st1 == [st EXCEPT !.cursor_store =
                    insert_cursor(@, Get(topic), Admin(publisher), msg.seq)]
        author_identifier == Get(st.author_identifier)
        announcement_spongos == spongos_get(st1, Get(st.stream_address).relative)
        st2 == [st1 EXCEPT !.spongos_store = Put(@, address.relative, msg.spongos)]
        subscribers == msg.body.subscribers
        stored == {<<p, st2.cursor_store[Get(topic)].cursors[p]>> :
                       p \in permissions_by_topic(st2.cursor_store, Get(topic))}
        st3 == [st2 EXCEPT !.cursor_store =
                    demote_omitted(@, Get(topic), stored, author_identifier, subscribers)]
        st4 == store_subscribers(st3, Get(topic), subscribers)
        st5 == [st4 EXCEPT !.cursor_store =
                    set_latest_link(@, Get(topic), address.relative)]
    IN  IF ~IsSome(st.stream_address) THEN Handled(st, "Err", "no stream")
        ELSE IF ~IsSome(topic) THEN Handled(st, "Err", "unknown topic")
        ELSE IF ~IsSome(perm) THEN Handled(st, "Err", "no cursor")
        ELSE IF ~is_admin(Get(perm)) THEN Handled(st, "Err", "not admin")
        ELSE IF ~IsSome(announcement_spongos) THEN Handled(st1, "Panic", "no announcement spongos")
        ELSE IF ~unwrap_ok(msg, Get(announcement_spongos)) THEN Handled(st1, "Err", "unwrap")
        ELSE Handled(st5, "Ok", "")

\* handle_packet with the branch link updated before the orphan check.
handle_packet_linking_first(st, address, msg) ==
    LET topic == topic_by_hash(st, msg.topic)
        perm == get_permission(st.cursor_store, Get(topic), msg.publisher)
        st1 == [st EXCEPT !.cursor_store =
                    set_latest_link(insert_cursor(@, Get(topic), Get(perm), msg.seq),
                                    Get(topic), address.relative)]
        linked == spongos_get(st1, Get(msg.linked))
        st2 == store_spongos(st1, address.relative, msg.spongos, Get(msg.linked))
    IN  IF ~IsSome(topic) THEN Handled(st, "Err", "unknown topic")
        ELSE IF ~IsSome(perm) THEN Handled(st, "Panic", "no cursor")
        ELSE IF ~IsSome(msg.linked) THEN Handled(st1, "Err", "no linked address")
        ELSE IF ~IsSome(linked) THEN Handled(st1, "Orphan", "")
        ELSE IF ~unwrap_ok(msg, Get(linked)) THEN Handled(st1, "Err", "unwrap")
        ELSE Handled(st2, "Ok", "")

\* handle_signed_packet and handle_tagged_packet have the same body.
handle_packet(st, address, msg) ==
    LET topic == topic_by_hash(st, msg.topic)
        perm == get_permission(st.cursor_store, Get(topic), msg.publisher)
        st1 == [st EXCEPT !.cursor_store =
                    insert_cursor(@, Get(topic), Get(perm), msg.seq)]
        linked == spongos_get(st1, Get(msg.linked))
        st2 == store_spongos(st1, address.relative, msg.spongos, Get(msg.linked))
        st3 == [st2 EXCEPT !.cursor_store =
                    set_latest_link(@, Get(topic), address.relative)]
    IN  IF ~IsSome(topic) THEN Handled(st, "Err", "unknown topic")
        ELSE IF ~IsSome(perm) THEN Handled(st, "Panic", "no cursor")
        ELSE IF ~IsSome(msg.linked) THEN Handled(st1, "Err", "no linked address")
        ELSE IF ~IsSome(linked) THEN Handled(st1, "Orphan", "")
        ELSE IF ~unwrap_ok(msg, Get(linked)) THEN Handled(st1, "Err", "unwrap")
        ELSE Handled(st3, "Ok", "")

handle_signed_packet(st, address, msg) == handle_packet(st, address, msg)

handle_tagged_packet(st, address, msg) == handle_packet(st, address, msg)

\* handle_message taking an unexpected type for a stream announcement.
handle_message_lenient(st, address, msg) ==
    CASE msg.type = BRANCH_ANNOUNCEMENT -> handle_branch_announcement(st, address, msg)
      [] msg.type = SUBSCRIPTION -> handle_subscription(st, address, msg)
      [] msg.type = UNSUBSCRIPTION -> handle_unsubscription(st, address, msg)
      [] msg.type = KEYLOAD -> handle_keyload(st, address, msg)
      [] msg.type = SIGNED_PACKET -> handle_signed_packet(st, address, msg)
      [] msg.type = TAGGED_PACKET -> handle_tagged_packet(st, address, msg)
      [] OTHER -> handle_announcement(st, address, msg)

handle_message(st, address, msg) ==
    CASE msg.type = ANNOUNCEMENT -> handle_announcement(st, address, msg)
      [] msg.type = BRANCH_ANNOUNCEMENT -> handle_branch_announcement(st, address, msg)
      [] msg.type = SUBSCRIPTION -> handle_subscription(st, address, msg)
      [] msg.type = UNSUBSCRIPTION -> handle_unsubscription(st, address, msg)
      [] msg.type = KEYLOAD -> handle_keyload(st, address, msg)
      [] msg.type = SIGNED_PACKET -> handle_signed_packet(st, address, msg)
      [] msg.type = TAGGED_PACKET -> handle_tagged_packet(st, address, msg)
      [] OTHER -> Handled(st, "Err", "unexpected message type")

----------------------------------------------------------------------------
(* Send operations.  Each returns the state and the transport it leaves,   *)
(* what it returns to the caller, and the address and message it sent.     *)

Outcome(st, t, result, err, address, msg) ==
    [state |-> st, transport |-> t, result |-> result, err |-> err,
     address |-> address, msg |-> msg]

Failed(st, t, err) == Outcome(st, t, "Err", err, None, None)

\* The error of a failed probe; the address is the one that was generated.
Duplicate(st, t, address) ==
    Outcome(st, t, "Err", "duplicate address", Some(address), None)

\* The pre-send probe: ensure!(transport.recv_message(address).is_err()).
probe_free(t, address) == ~recv_message(t, address).ok

\* The snapshot a wrap ends with: that of the message about to be stored.
wrapped_spongos(t, address) ==
    Spongos(address, IF address \in DOMAIN t THEN Len(t[address]) + 1 ELSE 1)

create_stream(st, t, topic) ==
    LET id == identifier(st)
        stream_base_address == AppAddrGen(id, topic)
        stream_rel_address == MsgIdGen(stream_base_address, id, topic, INIT_MESSAGE_NUM)
        stream_address == Address(stream_base_address, stream_rel_address)
        spongos == wrapped_spongos(t, stream_address)
        msg == Message(ANNOUNCEMENT, ANN_MESSAGE_NUM, id, topic, None, DefaultSpongos,
                       spongos, [NoBody EXCEPT !.id = id, !.topic = topic])
        cs1 == new_branch_store(st.cursor_store, topic)
        cs2 == insert_cursor(cs1, topic, Admin(id), INIT_MESSAGE_NUM)
        cs3 == set_latest_link(cs2, topic, stream_address.relative)
        st1 == [st EXCEPT !.cursor_store = cs3,
                          !.topics = @ \cup {topic},
                          !.spongos_store = Put(@, stream_address.relative, spongos),
                          !.stream_address = Some(stream_address),
                          !.author_identifier = Some(id),
                          !.base_branch = topic]
    IN  IF IsSome(st.stream_address) THEN Failed(st, t, "already registered")
        ELSE IF ~IsSome(st.user_id) THEN Failed(st, t, "no identity")
        ELSE IF ~probe_free(t, stream_address) THEN Duplicate(st, t, stream_address)
        ELSE Outcome(st1, send_message(t, stream_address, msg), "Ok", "",
                     Some(stream_address), Some(msg))

new_branch(st, t, from_topic, to_topic) ==
    LET stream_address == Get(st.stream_address)
        id == identifier(st)
        topic == to_topic
        prev_topic == from_topic
        perm == get_permission(st.cursor_store, prev_topic, id)
        link_to == get_latest_link(st.cursor_store, prev_topic)
        user_cursor == next_cursor(st, prev_topic)
        msgid == MsgIdGen(stream_address.base, id, prev_topic, Get(user_cursor))
        address == Address(stream_address.base, msgid)
        linked_msg_spongos == spongos_get(st, Get(link_to))
        spongos == wrapped_spongos(t, address)
        msg == Message(BRANCH_ANNOUNCEMENT, Get(user_cursor), id, prev_topic, link_to,
                       Get(linked_msg_spongos), spongos, [NoBody EXCEPT !.topic = topic])
        t1 == send_message(t, address, msg)
        \* after the send: create the branch, then commit
        st1 == [st EXCEPT !.cursor_store = new_branch_store(@, topic),
                          !.topics = @ \cup {topic}]
        next == next_cursor(st1, prev_topic)
        cs2 == insert_cursor(st1.cursor_store, prev_topic, Admin(id), Get(next))
        cs3 == insert_all(cs2, topic, permissions_by_topic(cs2, prev_topic),
                          INIT_MESSAGE_NUM)
        cs4 == set_latest_link(cs3, topic, address.relative)
        st2 == [st1 EXCEPT !.cursor_store = cs4,
                           !.spongos_store = Put(@, address.relative, spongos)]
    IN  IF ~IsSome(st.stream_address) THEN Failed(st, t, "no stream")
        ELSE IF ~IsSome(st.user_id) THEN Failed(st, t, "no identity")
        ELSE IF ~IsSome(perm) THEN Failed(st, t, "no cursor")
        ELSE IF is_readonly(Get(perm)) THEN Failed(st, t, "read only")
        ELSE IF ~IsSome(link_to) THEN Failed(st, t, "no latest link")
        ELSE IF ~IsSome(user_cursor) THEN Failed(st, t, "no cursor in base branch")
        ELSE IF ~IsSome(linked_msg_spongos) THEN Failed(st, t, "no spongos")
        ELSE IF ~IsSome(next)
        THEN Outcome(st1, t1, "Err", "not a publisher", Some(address), Some(msg))
        ELSE Outcome(st2, t1, "Ok", "", Some(address), Some(msg))

subscribe(st, t) ==
    LET stream_address == Get(st.stream_address)
        id == identifier(st)
        base_branch == st.base_branch
        link_to == stream_address.relative
        rel_address == MsgIdGen(stream_address.base, id, base_branch, SUB_MESSAGE_NUM)
        linked_msg_spongos == spongos_get(st, link_to)
        message_address == Address(stream_address.base, rel_address)
        msg == Message(SUBSCRIPTION, SUB_MESSAGE_NUM, id, base_branch, Some(link_to),
                       Get(linked_msg_spongos), wrapped_spongos(t, message_address),
                       [NoBody EXCEPT !.id = id, !.to = Get(st.author_identifier)])
    IN  IF ~IsSome(st.stream_address) THEN Failed(st, t, "no stream")
        ELSE IF ~IsSome(st.user_id) THEN Failed(st, t, "no identity")
        ELSE IF ~IsSome(linked_msg_spongos) THEN Failed(st, t, "no spongos")
        ELSE IF ~IsSome(st.author_identifier)
        THEN Outcome(st, t, "Panic", "no author identifier", None, None)
        ELSE IF ~probe_free(t, message_address) THEN Duplicate(st, t, message_address)
        ELSE Outcome(st, send_message(t, message_address, msg), "Ok", "",
                     Some(message_address), Some(msg))

unsubscribe(st, t) ==
    LET stream_address == Get(st.stream_address)
        id == identifier(st)
        base_branch == st.base_branch
        link_to == get_latest_link(st.cursor_store, base_branch)
        new_cursor == next_cursor(st, base_branch)
        rel_address == MsgIdGen(stream_address.base, id, base_branch, Get(new_cursor))
        linked_msg_spongos == spongos_get(st, Get(link_to))
        message_address == Address(stream_address.base, rel_address)
        spongos == wrapped_spongos(t, message_address)
        msg == Message(UNSUBSCRIPTION, Get(new_cursor), id, base_branch, link_to,
                       Get(linked_msg_spongos), spongos, [NoBody EXCEPT !.id = id])
        st1 == [st EXCEPT !.cursor_store =
                    insert_cursor(@, base_branch, Read(id), Get(new_cursor))]
        st2 == store_spongos(st1, rel_address, spongos, Get(link_to))
    IN  IF ~IsSome(st.stream_address) THEN Failed(st, t, "no stream")
        ELSE IF ~IsSome(st.user_id) THEN Failed(st, t, "no identity")
        ELSE IF ~IsSome(link_to) THEN Failed(st, t, "no latest link")
        ELSE IF ~IsSome(new_cursor) THEN Failed(st, t, "not a publisher")
        ELSE IF ~IsSome(linked_msg_spongos) THEN Failed(st, t, "no spongos")
        ELSE IF ~probe_free(t, message_address) THEN Duplicate(st, t, message_address)
        ELSE Outcome(st2, send_message(t, message_address, msg), "Ok", "",
                     Some(message_address), Some(msg))

\* send_keyload without the check that the sender is an admin of the branch.
send_keyload_unchecked(st, t, topic, subscribers) ==
    LET stream_address == Get(st.stream_address)
        id == identifier(st)
        perm == permission(st, topic)
        link_to == get_latest_link(st.cursor_store, topic)
        new_cursor == next_cursor(st, topic)
        rel_address == MsgIdGen(stream_address.base, id, topic, Get(new_cursor))
        announcement_msg_spongos == spongos_get(st, stream_address.relative)
        message_address == Address(stream_address.base, rel_address)
        spongos == wrapped_spongos(t, message_address)
        msg == Message(KEYLOAD, Get(new_cursor), id, topic, link_to,
                       Get(announcement_msg_spongos), spongos,
                       [NoBody EXCEPT !.subscribers = subscribers])
        st1 == store_subscribers(st, topic, subscribers)
        st2 == [st1 EXCEPT !.cursor_store =
                    insert_cursor(@, topic, Admin(id), Get(new_cursor))]
        st3 == store_spongos(st2, rel_address, spongos, Get(link_to))
        st4 == [st3 EXCEPT !.cursor_store =
                    set_latest_link(@, topic, message_address.relative)]
    IN  IF ~IsSome(st.stream_address) THEN Failed(st, t, "no stream")
        ELSE IF ~IsSome(st.user_id) THEN Failed(st, t, "no identity")
        ELSE IF ~IsSome(perm) THEN Failed(st, t, "no cursor")
        ELSE IF ~IsSome(link_to) THEN Failed(st, t, "no latest link")
        ELSE IF ~IsSome(new_cursor) THEN Failed(st, t, "not a publisher")
        ELSE IF ~IsSome(announcement_msg_spongos)
        THEN Outcome(st, t, "Panic", "no announcement spongos", None, None)
        ELSE IF ~probe_free(t, message_address) THEN Duplicate(st, t, message_address)
        ELSE Outcome(st4, send_message(t, message_address, msg), "Ok", "",
                     Some(message_address), Some(msg))

send_keyload(st, t, topic, subscribers) ==
    LET stream_address == Get(st.stream_address)
        id == identifier(st)
        perm == permission(st, topic)
        link_to == get_latest_link(st.cursor_store, topic)
        new_cursor == next_cursor(st, topic)
        rel_address == MsgIdGen(stream_address.base, id, topic, Get(new_cursor))
        announcement_msg_spongos == spongos_get(st, stream_address.relative)
        message_address == Address(stream_address.base, rel_address)
        spongos == wrapped_spongos(t, message_address)
        msg == Message(KEYLOAD, Get(new_cursor), id, topic, link_to,
                       Get(announcement_msg_spongos), spongos,
                       [NoBody EXCEPT !.subscribers = subscribers])
        st1 == store_subscribers(st, topic, subscribers)
        st2 == [st1 EXCEPT !.cursor_store =
                    insert_cursor(@, topic, Admin(id), Get(new_cursor))]
        st3 == store_spongos(st2, rel_address, spongos, Get(link_to))
        st4 == [st3 EXCEPT !.cursor_store =
                    set_latest_link(@, topic, message_address.relative)]
    IN  IF ~IsSome(st.stream_address) THEN Failed(st, t, "no stream")
        ELSE IF ~IsSome(st.user_id) THEN Failed(st, t, "no identity")
        ELSE IF ~IsSome(perm) THEN Failed(st, t, "no cursor")
        ELSE IF ~is_admin(Get(perm)) THEN Failed(st, t, "not admin")
        ELSE IF ~IsSome(link_to) THEN Failed(st, t, "no latest link")
        ELSE IF ~IsSome(new_cursor) THEN Failed(st, t, "not a publisher")
        ELSE IF ~IsSome(announcement_msg_spongos)
        THEN Outcome(st, t, "Panic", "no announcement spongos", None, None)
        ELSE IF ~probe_free(t, message_address) THEN Duplicate(st, t, message_address)
        ELSE Outcome(st4, send_message(t, message_address, msg), "Ok", "",
                     Some(message_address), Some(msg))

\* The recipients send_keyload_for_all[_rw] builds from the subscribers set.
all_subscribers(st, topic, rw) ==
    {IF s = Get(permission(st, topic)).id
     THEN Admin(s)
     ELSE IF rw THEN ReadWrite(s, "Perpetual") ELSE Read(s) : s \in st.subscribers}

send_keyload_for_all_any(st, t, topic, rw) ==
    LET perm == permission(st, topic)
    IN  IF ~IsSome(st.user_id) \/ ~IsSome(perm) THEN Failed(st, t, "no cursor")
        ELSE IF ~is_admin(Get(perm)) THEN Failed(st, t, "not admin")
        ELSE send_keyload(st, t, topic, all_subscribers(st, topic, rw))

send_keyload_for_all(st, t, topic) == send_keyload_for_all_any(st, t, topic, FALSE)

send_keyload_for_all_rw(st, t, topic) == send_keyload_for_all_any(st, t, topic, TRUE)

\* send_signed_packet and send_tagged_packet differ in the message type.
send_packet(st, t, topic, type) ==
    LET stream_address == Get(st.stream_address)
        id == identifier(st)
        perm == get_permission(st.cursor_store, topic, id)
        link_to == get_latest_link(st.cursor_store, topic)
        new_cursor == next_cursor(st, topic)
        rel_address == MsgIdGen(stream_address.base, id, topic, Get(new_cursor))
        linked_msg_spongos == spongos_get(st, Get(link_to))
        message_address == Address(stream_address.base, rel_address)
        spongos == wrapped_spongos(t, message_address)
        msg == Message(type, Get(new_cursor), id, topic, link_to,
                       Get(linked_msg_spongos), spongos, NoBody)
        st1 == [st EXCEPT !.cursor_store =
                    insert_cursor(@, topic, Get(perm), Get(new_cursor))]
        st2 == store_spongos(st1, rel_address, spongos, Get(link_to))
        st3 == [st2 EXCEPT !.cursor_store =
                    set_latest_link(@, topic, message_address.relative)]
    IN  IF ~IsSome(st.stream_address) THEN Failed(st, t, "no stream")
        ELSE IF ~IsSome(st.user_id) THEN Failed(st, t, "no identity")
        ELSE IF ~IsSome(perm) THEN Failed(st, t, "no cursor")
        ELSE IF is_readonly(Get(perm)) THEN Failed(st, t, "read only")
        ELSE IF ~IsSome(link_to) THEN Failed(st, t, "no latest link")
        ELSE IF ~IsSome(new_cursor) THEN Failed(st, t, "not a publisher")
        ELSE IF ~IsSome(linked_msg_spongos) THEN Failed(st, t, "no spongos")
        ELSE IF ~probe_free(t, message_address) THEN Duplicate(st, t, message_address)
        ELSE Outcome(st3, send_message(t, message_address, msg), "Ok", "",
                     Some(message_address), Some(msg))

send_signed_packet(st, t, topic) == send_packet(st, t, topic, SIGNED_PACKET)

send_tagged_packet(st, t, topic) == send_packet(st, t, topic, TAGGED_PACKET)

\* receive_message: recv_message, then handle_message.
receive_message(st, t, address) ==
    LET r == recv_message(t, address)
        h == handle_message(st, address, Get(r.msg))
    IN  IF ~r.ok
        THEN Outcome(st, t, "Err", r.err, Some(address), None)
        ELSE Outcome(h.state, t, h.result, h.err, Some(address), r.msg)

----------------------------------------------------------------------------
(* Backup and restore.  backup serializes the state field by field (only   *)
(* the topics that have a latest link are kept); restore rebuilds a        *)
(* default State from the serialized fields.                               *)

backup(st) ==
    LET kept == {tp \in st.topics : IsSome(get_latest_link(st.cursor_store, tp))}
    IN  [user_id |-> st.user_id,
         stream_address |-> st.stream_address,
         author_identifier |-> st.author_identifier,
         base_branch |-> st.base_branch,
         spongos |-> {<<m, st.spongos_store[m]>> : m \in DOMAIN st.spongos_store},
         topics |-> {<<tp, st.cursor_store[tp].latest_link,
                       {<<p, st.cursor_store[tp].cursors[p]>> :
                            p \in DOMAIN st.cursor_store[tp].cursors}>> : tp \in kept},
         subscribers |-> st.subscribers,
         lean |-> IF st.lean THEN 1 ELSE 0]

RECURSIVE restore_cursors(_, _, _)
restore_cursors(cs, topic, entries) ==
    IF entries = {}
    THEN cs
    ELSE LET e == CHOOSE x \in entries : TRUE
         IN  restore_cursors(insert_cursor(cs, topic, e[1], e[2]), topic, entries \ {e})

RECURSIVE restore_topics(_, _)
restore_topics(cs, topics) ==
    IF topics = {}
    THEN cs
    ELSE LET e == CHOOSE x \in topics : TRUE
             cs1 == set_latest_link(cs, e[1], e[2])
         IN  restore_topics(restore_cursors(cs1, e[1], e[3]), topics \ {e})

\* restore that does not re-register the topics it reads.
restore_forgetting_topics(bytes) ==
    [user_id |-> bytes.user_id,
     stream_address |-> bytes.stream_address,
     author_identifier |-> bytes.author_identifier,
     cursor_store |-> restore_topics(EmptyMap, bytes.topics),
     subscribers |-> bytes.subscribers,
     spongos_store |-> [m \in {e[1] : e \in bytes.spongos} |->
                           (CHOOSE e \in bytes.spongos : e[1] = m)[2]],
     base_branch |-> bytes.base_branch,
     lean |-> bytes.lean = 1,
     topics |-> {}]

restore(bytes) ==
    [user_id |-> bytes.user_id,
     stream_address |-> bytes.stream_address,
     author_identifier |-> bytes.author_identifier,
     cursor_store |-> restore_topics(EmptyMap, bytes.topics),
     subscribers |-> bytes.subscribers,
     spongos_store |-> [m \in {e[1] : e \in bytes.spongos} |->
                           (CHOOSE e \in bytes.spongos : e[1] = m)[2]],
     base_branch |-> bytes.base_branch,
     lean |-> bytes.lean = 1,
     topics |-> {e[1] : e \in bytes.topics}]

----------------------------------------------------------------------------
(* The system: the users, the transport they share, and a record of the    *)
(* last call (who, what, the state and transport before it, its result).   *)

Ident(u) == u

\* The user that is constructed lean.
Lean(u) == u = "B"

\* The user that creates the stream, and the topic it is created on.
Authors == {"A"}

BaseTopics == {"t1"}

\* Recipient lists a keyload may name: at most one permission per identifier.
AllPerms == UNION {PermsOf(i) : i \in Ids}

KeyloadSubscribers ==
    {{},
     {ReadWrite("B", "Perpetual")},
     {Read("B")},
     {Admin("B"), ReadWrite("C", "Until")}}

\* An address nothing is ever sent to.
AbsentAddress ==
    Address(AppAddrGen("C", "t1"), MsgIdGen(AppAddrGen("C", "t1"), "C", "t1", 9))

\* The addresses a user asks for: messages of other publishers, the stream
\* announcement, and an address that holds nothing.
ReceiveAddresses(u) ==
    {a \in DOMAIN transport :
        a.relative[2] # Ident(u) \/ a.relative[4] = INIT_MESSAGE_NUM}
    \cup {AbsentAddress}

Call(op, u, topic, to, out) ==
    [op |-> op, user |-> u, topic |-> topic, to |-> to,
     result |-> out.result, err |-> out.err,
     address |-> out.address, msg |-> out.msg,
     pre |-> users[u], tpre |-> transport]

ApplyWithin(max, op, u, topic, to, out) ==
    /\ out.transport # transport => TotalMsgs < max
    /\ users' = [users EXCEPT ![u] = out.state]
    /\ transport' = out.transport
    /\ last' = Call(op, u, topic, to, out)

Apply(op, u, topic, to, out) == ApplyWithin(MaxMsgs, op, u, topic, to, out)

Init ==
    /\ users = [u \in Users |-> NewUser(Ident(u), Lean(u))]
    /\ transport = EmptyMap
    /\ last = [op |-> "init", user |-> "", topic |-> "", to |-> "",
               result |-> "", err |-> "", address |-> None, msg |-> None,
               pre |-> None, tpre |-> EmptyMap]

CreateStream(u, topic) ==
    Apply("create_stream", u, topic, "", create_stream(users[u], transport, topic))

NewBranch(u, from, to) ==
    Apply("new_branch", u, from, to, new_branch(users[u], transport, from, to))

Subscribe(u) ==
    Apply("subscribe", u, "", "", subscribe(users[u], transport))

Unsubscribe(u) ==
    Apply("unsubscribe", u, "", "", unsubscribe(users[u], transport))

SendKeyload(u, topic, subscribers) ==
    Apply("send_keyload", u, topic, "", send_keyload(users[u], transport, topic, subscribers))

SendKeyloadForAll(u, topic) ==
    Apply("send_keyload_for_all", u, topic, "",
          send_keyload_for_all(users[u], transport, topic))

SendKeyloadForAllRw(u, topic) ==
    Apply("send_keyload_for_all_rw", u, topic, "",
          send_keyload_for_all_rw(users[u], transport, topic))

SendSignedPacket(u, topic) ==
    Apply("send_signed_packet", u, topic, "",
          send_signed_packet(users[u], transport, topic))

SendTaggedPacket(u, topic) ==
    Apply("send_tagged_packet", u, topic, "",
          send_tagged_packet(users[u], transport, topic))

ReceiveMessage(u, address) ==
    Apply("receive_message", u, "", "", receive_message(users[u], transport, address))

Restore(u) ==
    Apply("restore", u, "", "",
          Outcome(restore(backup(users[u])), transport, "Ok", "", None, None))

Next ==
    \/ \E u \in Authors, topic \in BaseTopics : CreateStream(u, topic)
    \/ \E u \in Users, from \in Topics, to \in Topics : NewBranch(u, from, to)
    \/ \E u \in Users : Subscribe(u)
    \/ \E u \in Users : Unsubscribe(u)
    \/ \E u \in Users, topic \in Topics, subscribers \in KeyloadSubscribers :
           SendKeyload(u, topic, subscribers)
    \/ \E u \in Users, topic \in Topics : SendKeyloadForAll(u, topic)
    \/ \E u \in Users, topic \in Topics : SendKeyloadForAllRw(u, topic)
    \/ \E u \in Users, topic \in Topics : SendSignedPacket(u, topic)
    \/ \E u \in Users, topic \in Topics : SendTaggedPacket(u, topic)
    \/ \E u \in Users : \E address \in ReceiveAddresses(u) : ReceiveMessage(u, address)
    \/ \E u \in Users : Restore(u)

Spec == Init /\ [][Next]_vars

----------------------------------------------------------------------------
(* The same users restricted to create_stream, new_branch, send_keyload    *)
(* and receive_message, with one recipient list, so that longer exchanges  *)
(* (a branch started by a subscriber, then a keyload on it) are reached.   *)

BranchKeyloadSubscribers == {{ReadWrite("B", "Perpetual")}}

KCreateStream(u, topic) ==
    ApplyWithin(MaxKeyloadMsgs, "create_stream", u, topic, "",
                create_stream(users[u], transport, topic))

KNewBranch(u, from, to) ==
    ApplyWithin(MaxKeyloadMsgs, "new_branch", u, from, to,
                new_branch(users[u], transport, from, to))

KSendKeyload(u, topic, subscribers) ==
    ApplyWithin(MaxKeyloadMsgs, "send_keyload", u, topic, "",
                send_keyload(users[u], transport, topic, subscribers))

KReceiveMessage(u, address) ==
    ApplyWithin(MaxKeyloadMsgs, "receive_message", u, "", "",
                receive_message(users[u], transport, address))

NextKeyload ==
    \/ \E u \in Authors, topic \in BaseTopics : KCreateStream(u, topic)
    \/ \E u \in Users, from \in Topics : KNewBranch(u, from, "t2")
    \/ \E u \in Users, topic \in Topics, subscribers \in BranchKeyloadSubscribers :
           KSendKeyload(u, topic, subscribers)
    \/ \E u \in Users : \E address \in ReceiveAddresses(u) : KReceiveMessage(u, address)

SpecKeyload == Init /\ [][NextKeyload]_vars

----------------------------------------------------------------------------
(* The same users restricted to create_stream, subscribe, send_keyload,    *)
(* unsubscribe and receive_message, so that a subscriber that was granted  *)
(* a permission unsubscribes and the author handles it.                    *)

SCreateStream(u, topic) ==
    ApplyWithin(MaxSubscribeMsgs, "create_stream", u, topic, "",
                create_stream(users[u], transport, topic))

SSubscribe(u) ==
    ApplyWithin(MaxSubscribeMsgs, "subscribe", u, "", "", subscribe(users[u], transport))

SSendKeyload(u, topic, subscribers) ==
    ApplyWithin(MaxSubscribeMsgs, "send_keyload", u, topic, "",
                send_keyload(users[u], transport, topic, subscribers))

SUnsubscribe(u) ==
    ApplyWithin(MaxSubscribeMsgs, "unsubscribe", u, "", "", unsubscribe(users[u], transport))

SReceiveMessage(u, address) ==
    ApplyWithin(MaxSubscribeMsgs, "receive_message", u, "", "",
                receive_message(users[u], transport, address))

NextSubscribe ==
    \/ \E u \in Authors, topic \in BaseTopics : SCreateStream(u, topic)
    \/ \E u \in Users : SSubscribe(u)
    \/ \E u \in Users, topic \in BaseTopics, subscribers \in BranchKeyloadSubscribers :
           SSendKeyload(u, topic, subscribers)
    \/ \E u \in Users : SUnsubscribe(u)
    \/ \E u \in Users : \E address \in ReceiveAddresses(u) : SReceiveMessage(u, address)

SpecSubscribe == Init /\ [][NextSubscribe]_vars

----------------------------------------------------------------------------
(* The cursor store alone: the store of user A is built from the empty one *)
(* by new_branch, insert_cursor, remove and set_latest_link, with their    *)
(* arguments drawn from small sets.  `last` also names the arguments and   *)
(* what the call returned.                                                 *)

StoreIds == {"A", "B"}

StorePerms == UNION {{Read(i), Admin(i)} : i \in StoreIds}

StoreCursors == 1..MaxCursor

StoreLink == MsgIdGen(AppAddrGen("A", "t1"), "A", "t1", INIT_MESSAGE_NUM)

StoreCall(op, topic, id, perm, c, returned, cs) ==
    /\ users' = [users EXCEPT !["A"].cursor_store = cs]
    /\ last' = [op |-> op, user |-> "A", topic |-> topic, to |-> "",
                result |-> "Ok", err |-> "", address |-> None, msg |-> None,
                pre |-> users["A"], tpre |-> transport,
                id |-> id, perm |-> perm, cursor |-> c, returned |-> returned]
    /\ UNCHANGED transport

StoreNewBranch(topic) ==
    LET cs == users["A"].cursor_store
    IN  StoreCall("new_branch", topic, None, None, None,
                  Some(new_branch_returns(cs, topic)), new_branch_store(cs, topic))

StoreInsertCursor(topic, perm, c) ==
    LET cs == users["A"].cursor_store
    IN  StoreCall("insert_cursor", topic, Some(perm.id), Some(perm), Some(c),
                  None, insert_cursor(cs, topic, perm, c))

StoreRemove(id) ==
    LET cs == users["A"].cursor_store
    IN  StoreCall("remove", "", Some(id), None, None,
                  Some(remove_returns(cs, id)), remove(cs, id))

StoreSetLatestLink(topic) ==
    LET cs == users["A"].cursor_store
    IN  StoreCall("set_latest_link", topic, None, None, None, None,
                  set_latest_link(cs, topic, StoreLink))

NextStore ==
    \/ \E topic \in Topics : StoreNewBranch(topic)
    \/ \E topic \in Topics, perm \in StorePerms, c \in StoreCursors :
           StoreInsertCursor(topic, perm, c)
    \/ \E id \in StoreIds : StoreRemove(id)
    \/ \E topic \in Topics : StoreSetLatestLink(topic)

SpecStore == Init /\ [][NextStore]_vars

----------------------------------------------------------------------------
(* The same users restricted to create_stream, send_keyload and            *)
(* receive_message.  In these runs `last` has one more field, sent, that   *)
(* remembers for every address the state its sender was in before it sent, *)
(* so that a recipient's view can be compared with the sender's.           *)

ViewApply(op, u, topic, out) ==
    /\ out.transport # transport => TotalMsgs < MaxViewMsgs
    /\ users' = [users EXCEPT ![u] = out.state]
    /\ transport' = out.transport
    /\ last' = Call(op, u, topic, "", out) @@
                [sent |-> IF out.transport # transport
                          THEN Put(last.sent, Get(out.address), users[u])
                          ELSE last.sent]

ViewCreateStream(u, topic) ==
    ViewApply("create_stream", u, topic, create_stream(users[u], transport, topic))

ViewSendKeyload(u, topic, subscribers) ==
    ViewApply("send_keyload", u, topic,
              send_keyload(users[u], transport, topic, subscribers))

ViewReceiveMessage(u, address) ==
    ViewApply("receive_message", u, "", receive_message(users[u], transport, address))

InitViews ==
    /\ users = [u \in Users |-> NewUser(Ident(u), Lean(u))]
    /\ transport = EmptyMap
    /\ last = [op |-> "init", user |-> "", topic |-> "", to |-> "",
               result |-> "", err |-> "", address |-> None, msg |-> None,
               pre |-> None, tpre |-> EmptyMap, sent |-> EmptyMap]

NextViews ==
    \/ \E u \in Authors, topic \in BaseTopics : ViewCreateStream(u, topic)
    \/ \E u \in Users, topic \in BaseTopics, subscribers \in KeyloadSubscribers :
           ViewSendKeyload(u, topic, subscribers)
    \/ \E u \in Users : \E address \in ReceiveAddresses(u) : ViewReceiveMessage(u, address)

SpecViews == InitViews /\ [][NextViews]_vars

----------------------------------------------------------------------------
(* Properties.  `last` names the last call; Before and After are the       *)
(* caller's state before and after it.                                     *)

Before == last.pre

After == users[last.user]

Received(type) ==
    /\ last.op = "receive_message"
    /\ IsSome(last.msg)
    /\ Get(last.msg).type = type

ReceivedLinked ==
    /\ last.op = "receive_message"
    /\ IsSome(last.msg)
    /\ Get(last.msg).type \in {BRANCH_ANNOUNCEMENT, SUBSCRIPTION, UNSUBSCRIPTION,
                               SIGNED_PACKET, TAGGED_PACKET}

\* The two states differ in nothing but the cursor stores.
SameButCursorStore(a, b) == [a EXCEPT !.cursor_store = b.cursor_store] = b

\* The cursor stores differ at most in the cursor stored for id in topic.
SameButCursorOf(csa, csb, topic, id) ==
    /\ DOMAIN csa = DOMAIN csb
    /\ \A t \in DOMAIN csa :
          /\ csa[t].latest_link = csb[t].latest_link
          /\ DOMAIN csa[t].cursors = DOMAIN csb[t].cursors
          /\ \A p \in DOMAIN csa[t].cursors :
                (t # topic \/ p.id # id) => csa[t].cursors[p] = csb[t].cursors[p]

\* C1 (as stated): a message whose linked predecessor's snapshot is absent
\* is returned as an orphan and the whole user state is as before the call.
C1_OrphanLeavesStateUnchanged ==
    (ReceivedLinked /\ last.result = "Orphan") => After = Before

\* C1 (amended): an orphan subscription or unsubscription leaves the whole
\* state as it was; an orphan branch announcement, signed packet or tagged
\* packet leaves it as it was except for the cursor of the header's publisher
\* in the header's topic, which is the header's sequence number.
C1_OrphanOnlyAdvancesPublisherCursor ==
    (ReceivedLinked /\ last.result = "Orphan") =>
        LET m == Get(last.msg)
        IN  IF m.type \in {SUBSCRIPTION, UNSUBSCRIPTION}
            THEN After = Before
            ELSE /\ SameButCursorStore(Before, After)
                 /\ SameButCursorOf(Before.cursor_store, After.cursor_store,
                                    m.topic, m.publisher)
                 /\ get_cursor(After.cursor_store, m.topic, m.publisher) = Some(m.seq)

\* An orphan packet or branch announcement that moved the publisher's cursor.
C1_Witness ==
    /\ ReceivedLinked
    /\ last.result = "Orphan"
    /\ Get(last.msg).type \in {BRANCH_ANNOUNCEMENT, SIGNED_PACKET, TAGGED_PACKET}
    /\ After # Before

\* C2: in every reachable state of every user, a branch of the cursor store
\* holds at most one entry whose permission names a given identifier.
C2_OneEntryPerIdentifier ==
    \A u \in Users : \A t \in DOMAIN users[u].cursor_store : \A id \in Ids :
        Cardinality(EntriesOf(users[u].cursor_store, t, id)) <= 1

\* A call re-bound an identifier's entry to another permission.
C2_Witness ==
    /\ last.op \in {"receive_message", "send_keyload", "new_branch", "unsubscribe"}
    /\ \E t \in DOMAIN Before.cursor_store : \E id \in Ids :
          /\ t \in DOMAIN After.cursor_store
          /\ EntriesOf(Before.cursor_store, t, id) # {}
          /\ EntriesOf(After.cursor_store, t, id) # {}
          /\ EntriesOf(Before.cursor_store, t, id) # EntriesOf(After.cursor_store, t, id)


KeyloadHandled == Received(KEYLOAD) /\ last.result = "Ok"

\* The identifiers a keyload lists.
ListedIn(msg) == {p.id : p \in msg.body.subscribers}

\* C3 (as stated): after a keyload K on branch T is handled, every
\* identifier K lists with a non-read-only permission has an entry in T, and
\* every identifier that had an entry in T, is not listed and is not the
\* author is Read in T with the cursor it had before.
C3_KeyloadStoresAndDemotes ==
    KeyloadHandled =>
        LET m == Get(last.msg)
            author == Get(Before.author_identifier)
        IN  /\ \A p \in m.body.subscribers :
                  ~is_readonly(p) => EntriesOf(After.cursor_store, m.topic, p.id) # {}
            /\ \A id \in Ids :
                  (/\ EntriesOf(Before.cursor_store, m.topic, id) # {}
                   /\ id \notin ListedIn(m)
                   /\ id # author)
                  => /\ get_permission(After.cursor_store, m.topic, id) = Some(Read(id))
                     /\ get_cursor(After.cursor_store, m.topic, id)
                            = get_cursor(Before.cursor_store, m.topic, id)

\* C3 (amended): the same, except that the keyload's publisher, when it is
\* demoted, has the keyload's sequence number as its cursor.
C3_KeyloadStoresAndDemotesButPublisher ==
    KeyloadHandled =>
        LET m == Get(last.msg)
            author == Get(Before.author_identifier)
        IN  /\ \A p \in m.body.subscribers :
                  ~is_readonly(p) => EntriesOf(After.cursor_store, m.topic, p.id) # {}
            /\ \A id \in Ids :
                  (/\ EntriesOf(Before.cursor_store, m.topic, id) # {}
                   /\ id \notin ListedIn(m)
                   /\ id # author)
                  => /\ get_permission(After.cursor_store, m.topic, id) = Some(Read(id))
                     /\ get_cursor(After.cursor_store, m.topic, id)
                            = IF id = m.publisher
                              THEN Some(m.seq)
                              ELSE get_cursor(Before.cursor_store, m.topic, id)

\* A handled keyload that brought a new writer in and demoted an omitted one.
C3_Witness ==
    /\ KeyloadHandled
    /\ LET m == Get(last.msg)
       IN  /\ \E p \in m.body.subscribers :
                 /\ ~is_readonly(p)
                 /\ get_permission(Before.cursor_store, m.topic, p.id) # Some(p)
           /\ \E id \in Ids \ ListedIn(m) :
                 /\ id # Get(Before.author_identifier)
                 /\ EntriesOf(Before.cursor_store, m.topic, id) # {}
                 /\ get_permission(Before.cursor_store, m.topic, id) # Some(Read(id))

\* The permission a handled message's publisher had, before the call, in
\* the branch the header names.
PublisherPermBefore ==
    get_permission(Before.cursor_store, Get(last.msg).topic, Get(last.msg).publisher)

\* C4: handling a keyload whose publisher's stored permission in the target
\* branch is not Admin returns an error and the user state is as before.
C4_NonAdminKeyloadRejected ==
    (/\ Received(KEYLOAD)
     /\ IsSome(PublisherPermBefore)
     /\ ~is_admin(Get(PublisherPermBefore)))
    => /\ last.result = "Err"
       /\ After = Before

\* A keyload published by a ReadWrite member of a known branch was handled.
C4_Witness ==
    /\ Received(KEYLOAD)
    /\ Get(last.msg).topic \in Before.topics
    /\ IsSome(PublisherPermBefore)
    /\ Get(PublisherPermBefore).tag = "ReadWrite"
    /\ last.err = "not admin"

PacketOrBranchOps == {"send_signed_packet", "send_tagged_packet", "new_branch"}

KeyloadOps == {"send_keyload", "send_keyload_for_all", "send_keyload_for_all_rw"}

\* The caller's permission, before the call, in the topic it named.
CallerPermBefore == permission(Before, last.topic)

\* C5: a packet or branch sent by a caller that is Read in the (source)
\* topic, and a keyload sent by a caller that is not Admin in the topic,
\* return an error, store nothing in the transport and leave the caller's
\* state as it was.
C5_DeniedSendsChangeNothing ==
    (\/ /\ last.op \in PacketOrBranchOps
        /\ IsSome(CallerPermBefore)
        /\ is_readonly(Get(CallerPermBefore))
     \/ /\ last.op \in KeyloadOps
        /\ ~(IsSome(CallerPermBefore) /\ is_admin(Get(CallerPermBefore))))
    => /\ last.result = "Err"
       /\ transport = last.tpre
       /\ After = Before

\* A Read member tried to send a packet or to start a branch.
C5_Witness ==
    /\ last.op \in PacketOrBranchOps
    /\ IsSome(CallerPermBefore)
    /\ is_readonly(Get(CallerPermBefore))
    /\ last.err = "read only"

SendOps ==
    {"create_stream", "new_branch", "subscribe", "unsubscribe", "send_keyload",
     "send_signed_packet", "send_tagged_packet"}

\* C6: a send operation whose generated address already holds a message in
\* the transport returns a duplicate-address error, sends nothing and leaves
\* the caller's state as it was.
C6_OccupiedAddressIsRejected ==
    (/\ last.op \in SendOps
     /\ IsSome(last.address)
     /\ Get(last.address) \in DOMAIN last.tpre)
    => /\ last.result = "Err"
       /\ last.err = "duplicate address"
       /\ transport = last.tpre
       /\ After = Before

SequencedSendOps ==
    {"new_branch", "unsubscribe", "send_keyload", "send_keyload_for_all",
     "send_keyload_for_all_rw", "send_signed_packet", "send_tagged_packet"}

\* C7: a branch announcement, unsubscription, keyload, signed or tagged
\* packet sent with Ok carries the sender's cursor in the topic before the
\* call plus one, and that sequence is the sender's cursor after the call.
C7_SendAdvancesOwnCursor ==
    (last.op \in SequencedSendOps /\ last.result = "Ok") =>
        LET m == Get(last.msg)
        IN  /\ Some(m.seq) = next_cursor(Before, m.topic)
            /\ cursor(After, m.topic) = Some(m.seq)

SnapshotSendOps ==
    {"create_stream", "new_branch", "unsubscribe", "send_keyload",
     "send_keyload_for_all", "send_keyload_for_all_rw", "send_signed_packet",
     "send_tagged_packet"}

\* C8: after a send operation other than subscribe returns Ok with address
\* A, the sender's snapshot store has an entry for A's message id, in lean
\* and in non-lean mode.
C8_SentSnapshotStored ==
    (last.op \in SnapshotSendOps /\ last.result = "Ok") =>
        Get(last.address).relative \in DOMAIN After.spongos_store

\* A lean sender's message linked to something other than the announcement.
C8_Witness ==
    /\ last.op \in SnapshotSendOps
    /\ last.result = "Ok"
    /\ Before.lean
    /\ IsSome(Get(last.msg).linked)
    /\ Get(Get(last.msg).linked) # Get(Before.stream_address).relative

\* C9: subscribe leaves the sender's whole state as it was; handling a
\* subscription changes nothing but the subscribers set, to which at most
\* the subscriber's identifier is added, and adds it when it returns Ok.
C9_SubscriptionOnlyAddsSubscriber ==
    /\ last.op = "subscribe" => After = Before
    /\ Received(SUBSCRIPTION) =>
          /\ [After EXCEPT !.subscribers = Before.subscribers] = Before
          /\ After.subscribers \subseteq Before.subscribers \cup {Get(last.msg).body.id}
          /\ last.result = "Ok" =>
                After.subscribers = Before.subscribers \cup {Get(last.msg).body.id}

\* An author with snapshots and cursors stored accepted a new subscriber.
C9_Witness ==
    /\ Received(SUBSCRIPTION)
    /\ last.result = "Ok"
    /\ After.subscribers # Before.subscribers
    /\ DOMAIN Before.spongos_store # {}
    /\ DOMAIN Before.cursor_store # {}

\* C10: in every state of every user, stream_address is Some iff
\* author_identifier is Some iff the cursor store has a branch for base_branch.
C10_StreamAuthorBaseBranchTogether ==
    \A u \in Users :
        /\ IsSome(users[u].stream_address) <=> IsSome(users[u].author_identifier)
        /\ IsSome(users[u].stream_address)
              <=> users[u].base_branch \in DOMAIN users[u].cursor_store

\* A user that joined the stream by handling its announcement.
C10_Witness ==
    /\ Received(ANNOUNCEMENT)
    /\ last.result = "Ok"
    /\ ~IsSome(Before.stream_address)
    /\ IsSome(After.stream_address)
    /\ IsSome(After.author_identifier)
    /\ After.base_branch \in DOMAIN After.cursor_store

----------------------------------------------------------------------------
(* Snapshot store in lean mode                                             *)

\* The message id the last call's message is stored under.
StoredId == Get(last.address).relative

\* The last call stored a snapshot for its message, which links to another.
StoredLinkedSnapshot ==
    /\ last.op \notin {"init", "restore"}
    /\ IsSome(last.msg)
    /\ IsSome(last.address)
    /\ IsSome(Get(last.msg).linked)
    /\ StoredId \notin DOMAIN Before.spongos_store
    /\ StoredId \in DOMAIN After.spongos_store

\* C11: in lean mode, an operation that stores a new snapshot for a message
\* M linked to L leaves no snapshot for L in the store, unless L is the
\* stream announcement.
C11_LeanEvictsLinked ==
    (/\ StoredLinkedSnapshot
     /\ Before.lean
     /\ IsSome(After.stream_address)
     /\ Get(Get(last.msg).linked) # Get(After.stream_address).relative)
    => Get(Get(last.msg).linked) \notin DOMAIN After.spongos_store

\* C12: in lean mode the snapshot store holds the announcement's snapshot
\* and, for every known branch, the snapshot of the branch's latest link.
C12_LeanKeepsAnnouncementAndTips ==
    \A u \in Users :
        (users[u].lean /\ IsSome(users[u].stream_address)) =>
            /\ Get(users[u].stream_address).relative \in DOMAIN users[u].spongos_store
            /\ \A t \in users[u].topics :
                  Get(get_latest_link(users[u].cursor_store, t))
                      \in DOMAIN users[u].spongos_store

----------------------------------------------------------------------------
(* Backup and restore                                                      *)

----------------------------------------------------------------------------
(* Cursors of handled messages                                             *)

\* The message types whose header sequence a handler stores as a cursor.
SequencedTypes == {BRANCH_ANNOUNCEMENT, KEYLOAD, SIGNED_PACKET, TAGGED_PACKET}

ReceivedSequenced ==
    /\ last.op = "receive_message"
    /\ IsSome(last.msg)
    /\ Get(last.msg).type \in SequencedTypes

\* The cursor the receiver stored, before and after the call, for the
\* publisher of the handled message in the topic of its header.
PublisherCursorBefore ==
    get_cursor(Before.cursor_store, Get(last.msg).topic, Get(last.msg).publisher)

PublisherCursorAfter ==
    get_cursor(After.cursor_store, Get(last.msg).topic, Get(last.msg).publisher)

\* C14: the cursors of the successive messages of a publisher P in a branch
\* T that a user handles are strictly increasing: handling a message of P
\* in T leaves a cursor for P in T greater than the one stored before.
C14_HandledCursorsIncrease ==
    (/\ ReceivedSequenced
     /\ last.result = "Ok"
     /\ IsSome(PublisherCursorBefore)
     /\ IsSome(PublisherCursorAfter))
    => Get(PublisherCursorAfter) > Get(PublisherCursorBefore)

\* C15: a message of P in T with header sequence n changes the receiver's
\* state only when the receiver's stored cursor for P in T is n - 1.
C15_GapBlocks ==
    (ReceivedSequenced /\ After # Before)
    => PublisherCursorBefore = Some(Get(last.msg).seq - 1)

\* C16 (as stated): after a branch announcement, keyload, signed packet or
\* tagged packet whose publisher has a cursor entry in the header's topic is
\* handled, the publisher's cursor there is the header's sequence number,
\* also when the body does not unwrap and the handler returns an error.
C16_CursorIsHeaderSequence ==
    (ReceivedSequenced /\ IsSome(PublisherPermBefore))
    => PublisherCursorAfter = Some(Get(last.msg).seq)

\* C16 (amended): the same, with two exceptions.  A keyload whose publisher
\* is not an admin of the branch is rejected before the cursor is touched:
\* the publisher's cursor is the one stored before.  A branch announcement
\* whose new topic is the topic of its header, once handled with Ok, has
\* re-created that branch: no cursor is stored for the publisher.
C16_CursorIsHeaderSequenceUnlessRejected ==
    (ReceivedSequenced /\ IsSome(PublisherPermBefore))
    => LET m == Get(last.msg)
       IN  IF m.type = KEYLOAD /\ ~is_admin(Get(PublisherPermBefore))
           THEN PublisherCursorAfter = PublisherCursorBefore
           ELSE IF /\ m.type = BRANCH_ANNOUNCEMENT
                   /\ last.result = "Ok"
                   /\ m.body.topic = m.topic
           THEN PublisherCursorAfter = None
           ELSE PublisherCursorAfter = Some(m.seq)

\* A message whose body did not unwrap moved its publisher's cursor.
C16_Witness ==
    /\ ReceivedSequenced
    /\ IsSome(PublisherPermBefore)
    /\ last.result = "Err"
    /\ last.err = "unwrap"
    /\ PublisherCursorBefore # Some(Get(last.msg).seq)
    /\ PublisherCursorAfter = Some(Get(last.msg).seq)

----------------------------------------------------------------------------
(* The transport alone: messages are sent to a few addresses and read back *)
(* through Transport::recv_message and BucketTransport::recv_message.      *)

BucketAddresses ==
    {Address(AppAddrGen("A", "t1"), MsgIdGen(AppAddrGen("A", "t1"), "A", "t1", n)) :
        n \in {INIT_MESSAGE_NUM, INIT_MESSAGE_NUM + 1}}

BucketMsgs == {"m1", "m2"}

TransportCall(op, result, err, address, msg) ==
    [op |-> op, user |-> "", topic |-> "", to |-> "",
     result |-> result, err |-> err, address |-> Some(address), msg |-> msg,
     pre |-> None, tpre |-> transport]

\* The sends made so far, oldest first, each as <<address, message>>.
SendLog == IF "log" \in DOMAIN last THEN last.log ELSE <<>>

TransportSend(address, m) ==
    /\ TotalMsgs < MaxBucketMsgs
    /\ transport' = send_message(transport, address, m)
    /\ last' = TransportCall("send_message", "Ok", "", address, Some(m))
                    @@ [log |-> Append(SendLog, <<address, m>>)]
    /\ UNCHANGED users

TransportRecv(address) ==
    LET r == recv_message(transport, address)
    IN  /\ last' = TransportCall("recv_message", IF r.ok THEN "Ok" ELSE "Err",
                                 r.err, address, r.msg)
                        @@ [log |-> SendLog]
        /\ UNCHANGED <<users, transport>>

BucketRecv(address) ==
    LET r == bucket_recv_message(transport, address)
    IN  /\ last' = TransportCall("bucket_recv_message",
                                 IF r.aborted THEN "Panic"
                                 ELSE IF r.ok THEN "Ok" ELSE "Err",
                                 r.err, address, r.msg)
                        @@ [log |-> SendLog]
        /\ UNCHANGED <<users, transport>>

BucketRecvMessages(address) ==
    LET r == recv_messages(transport, address)
    IN  /\ last' = TransportCall("recv_messages", IF r.ok THEN "Ok" ELSE "Err",
                                 IF r.ok THEN "" ELSE "MessageLinkNotFound",
                                 address, Some(r.msgs))
                        @@ [log |-> SendLog]
        /\ UNCHANGED <<users, transport>>

NextTransport ==
    \/ \E address \in BucketAddresses, m \in BucketMsgs : TransportSend(address, m)
    \/ \E address \in BucketAddresses : TransportRecv(address)
    \/ \E address \in BucketAddresses : BucketRecv(address)
    \/ \E address \in BucketAddresses : BucketRecvMessages(address)

SpecTransport == Init /\ [][NextTransport]_vars

\* The messages stored at the address the last call asked for.
StoredAtAsked ==
    IF Get(last.address) \in DOMAIN last.tpre
    THEN last.tpre[Get(last.address)]
    ELSE <<>>

\* C17: recv_message, in the trait's default implementation and in the
\* bucket transport, returns Ok with the message iff exactly one message is
\* stored at the address, and returns (never aborts with) one error when
\* none is stored and another one when more than one is.
C17_RecvMessageOneOrError ==
    last.op \in {"recv_message", "bucket_recv_message"} =>
        /\ last.result \in {"Ok", "Err"}
        /\ last.result = "Ok" <=> Len(StoredAtAsked) = 1
        /\ last.result = "Ok" => last.msg = Some(StoredAtAsked[1])
        /\ Len(StoredAtAsked) = 0 => last.err = "not found"
        /\ Len(StoredAtAsked) > 1 => last.err = "more than one"

\* The last call handled a sequenced message of a known topic whose
\* publisher had no cursor in that topic.
ReceivedWithoutCursor ==
    /\ ReceivedSequenced
    /\ Get(last.msg).topic \in Before.topics
    /\ ~IsSome(PublisherCursorBefore)

\* C18: handling a branch announcement, keyload, signed packet or tagged
\* packet whose publisher has no cursor in the header's topic returns an
\* error to the caller, without aborting, and leaves the user state unchanged.
C18_MissingCursorIsAnError ==
    ReceivedWithoutCursor => (last.result = "Err" /\ After = Before)

----------------------------------------------------------------------------
(* The stream with a party outside it writing to the shared transport:     *)
(* messages of a type no handler knows, and sequenced messages on either   *)
(* topic, are stored next to the author's and received by the users.       *)

ForeignId == "C"

ForeignTypes == {"unexpected", BRANCH_ANNOUNCEMENT, KEYLOAD, SIGNED_PACKET, TAGGED_PACKET}

ForeignAddress(topic) ==
    Address(AppAddrGen("A", "t1"),
            MsgIdGen(AppAddrGen("A", "t1"), ForeignId, topic, INIT_MESSAGE_NUM))

ForeignMessage(type, topic) ==
    Message(type, INIT_MESSAGE_NUM, ForeignId, topic,
            Some(MsgIdGen(AppAddrGen("A", "t1"), "A", "t1", INIT_MESSAGE_NUM)),
            DefaultSpongos, Spongos(ForeignAddress(topic), 1), NoBody)

\* An announcement the outside party signs itself (its body names it as
\* the author) with another identifier as the publisher of its header.
ForeignAnnouncement(topic) ==
    Message(ANNOUNCEMENT, ANN_MESSAGE_NUM, "A", topic, None,
            DefaultSpongos, Spongos(ForeignAddress(topic), 1),
            [NoBody EXCEPT !.id = ForeignId, !.topic = topic])

FCreateStream(u, topic) ==
    ApplyWithin(MaxForeignMsgs, "create_stream", u, topic, "",
                create_stream(users[u], transport, topic))

ForeignSend(type, topic) ==
    /\ TotalMsgs < MaxForeignMsgs
    /\ transport' = send_message(transport, ForeignAddress(topic),
                                 ForeignMessage(type, topic))
    /\ last' = TransportCall("send_message", "Ok", "", ForeignAddress(topic),
                             Some(ForeignMessage(type, topic)))
    /\ UNCHANGED users

ForeignAnnounce(topic) ==
    /\ TotalMsgs < MaxForeignMsgs
    /\ transport' = send_message(transport, ForeignAddress(topic),
                                 ForeignAnnouncement(topic))
    /\ last' = TransportCall("send_message", "Ok", "", ForeignAddress(topic),
                             Some(ForeignAnnouncement(topic)))
    /\ UNCHANGED users

FReceiveMessage(u, address) ==
    ApplyWithin(MaxForeignMsgs, "receive_message", u, "", "",
                receive_message(users[u], transport, address))

NextForeign ==
    \/ \E u \in Authors, topic \in BaseTopics : FCreateStream(u, topic)
    \/ \E type \in ForeignTypes, topic \in Topics : ForeignSend(type, topic)
    \/ \E topic \in Topics : ForeignAnnounce(topic)
    \/ \E u \in Users : \E address \in ReceiveAddresses(u) : FReceiveMessage(u, address)

SpecForeign == Init /\ [][NextForeign]_vars

KnownTypes ==
    {ANNOUNCEMENT, BRANCH_ANNOUNCEMENT, SUBSCRIPTION, UNSUBSCRIPTION,
     KEYLOAD, SIGNED_PACKET, TAGGED_PACKET}

ReceivedUnknownType ==
    /\ last.op = "receive_message"
    /\ IsSome(last.msg)
    /\ Get(last.msg).type \notin KnownTypes

ReceivedUnknownTopic ==
    /\ ReceivedSequenced
    /\ Get(last.msg).topic \notin Before.topics

\* C19: handling a message whose type is none of the seven known ones, or a
\* branch announcement, keyload, signed or tagged packet whose topic hash
\* matches no topic the user knows, returns an error and leaves the user
\* state as it was.
C19_UnknownTypeOrTopicRejected ==
    (ReceivedUnknownType \/ ReceivedUnknownTopic) =>
        (last.result = "Err" /\ After = Before)

C19_Witness ==
    /\ ReceivedUnknownType
    /\ IsSome(Before.stream_address)
    /\ last.result = "Err"
    /\ last.err = "unexpected message type"

C19_UnknownTopicReached ==
    /\ ReceivedUnknownTopic
    /\ Before.topics # {}
    /\ last.result = "Err"

\* C20: no send operation leaves the user state partially updated: a send
\* that returns an error leaves the caller's state as it was before the
\* call, also new_branch(from, to) when the branch `to` exists already.
C20_FailedSendChangesNothing ==
    (last.op \in SendOps /\ last.result = "Err") => After = Before

----------------------------------------------------------------------------
(* The shared transport, Rc<RefCell<Tsp>>: in these runs `transport` is    *)
(* the cell.  value is the inner transport, borrow the user whose RefMut   *)
(* is alive, calls the forwarded call each user is awaiting.  unwrapped is *)
(* a plain transport that is given the calls that complete, and overlapped *)
(* records that a call was started while another one was in progress.      *)

NewCell ==
    [value |-> EmptyMap, borrow |-> None,
     calls |-> [u \in Users |-> None],
     unwrapped |-> EmptyMap, overlapped |-> FALSE]

\* RefCell::borrow_mut succeeds iff no borrow is alive.
can_borrow_mut(cell) == ~IsSome(cell.borrow)

\* The RefMut that is never dropped.
drop_ref_mut_leaking(cell) == cell

\* The RefMut is a temporary of the forwarding statement: it is dropped
\* when the forwarded future has completed.
drop_ref_mut(cell) == [cell EXCEPT !.borrow = None]

InProgress(cell) == {u \in Users : IsSome(cell.calls[u])}

CountValueMsgs(cell) == CountMsgs(cell.value, DOMAIN cell.value)

SharedCall(op, u, result, err, address, msg) ==
    [TransportCall(op, result, err, address, msg) EXCEPT !.user = u]

\* A user calls send_message or recv_messages on the cell: borrow_mut, then
\* the inner call is awaited.  borrow_mut panics when a borrow is alive.
SharedBegin(u, op, address, m) ==
    /\ ~IsSome(transport.calls[u])
    /\ op = "send_message" => CountValueMsgs(transport) + Cardinality(InProgress(transport)) < MaxBucketMsgs
    /\ IF can_borrow_mut(transport)
       THEN /\ transport' = [transport EXCEPT
                                !.borrow = Some(u),
                                !.calls[u] = Some([op |-> op, address |-> address, msg |-> m]),
                                !.overlapped = @ \/ InProgress(transport) # {}]
            /\ last' = SharedCall("borrow_mut", u, "Ok", "", address, None)
       ELSE /\ transport' = [transport EXCEPT !.overlapped = TRUE]
            /\ last' = SharedCall("borrow_mut", u, "Panic", "already borrowed", address, None)
    /\ UNCHANGED users

\* The inner call completes and the forwarding statement ends.
SharedEnd(u) ==
    /\ IsSome(transport.calls[u])
    /\ LET call == Get(transport.calls[u])
           value == IF call.op = "send_message"
                    THEN send_message(transport.value, call.address, call.msg)
                    ELSE transport.value
           unwrapped == IF call.op = "send_message"
                        THEN send_message(transport.unwrapped, call.address, call.msg)
                        ELSE transport.unwrapped
           r == recv_messages(transport.value, call.address)
           done == [transport EXCEPT !.value = value, !.unwrapped = unwrapped,
                                     !.calls[u] = None]
       IN  /\ transport' = drop_ref_mut(done)
           /\ last' = IF call.op = "send_message"
                      THEN SharedCall(call.op, u, "Ok", "", call.address, Some(call.msg))
                      ELSE SharedCall(call.op, u, IF r.ok THEN "Ok" ELSE "Err",
                                      IF r.ok THEN "" ELSE "not found",
                                      call.address, Some(r.msgs))
    /\ UNCHANGED users

InitShared ==
    /\ users = [u \in Users |-> NewUser(Ident(u), Lean(u))]
    /\ transport = NewCell
    /\ last = [op |-> "init", user |-> "", topic |-> "", to |-> "",
               result |-> "", err |-> "", address |-> None, msg |-> None,
               pre |-> None, tpre |-> NewCell]

NextShared ==
    \/ \E u \in Users, address \in BucketAddresses, m \in BucketMsgs :
           SharedBegin(u, "send_message", address, m)
    \/ \E u \in Users, address \in BucketAddresses :
           SharedBegin(u, "recv_messages", address, "")
    \/ \E u \in Users : SharedEnd(u)

SpecShared == InitShared /\ [][NextShared]_vars

\* What recv_messages on the plain transport returned for the last call.
UnwrappedRecv == recv_messages(last.tpre.unwrapped, Get(last.address))

\* C21: the shared-transport wrapper holds the borrow of the inner transport
\* only while a forwarded call is in progress: as long as no two calls have
\* overlapped, borrow_mut never fails, the inner transport is unborrowed
\* whenever no call is in progress, and every call returns and stores what
\* the same call on the unwrapped transport does.
C21_SharedBehavesAsUnwrapped ==
    ~transport.overlapped =>
        /\ last.result # "Panic"
        /\ InProgress(transport) = {} => ~IsSome(transport.borrow)
        /\ InProgress(transport) = {} => transport.value = transport.unwrapped
        /\ last.op = "recv_messages" =>
              /\ last.result = (IF UnwrappedRecv.ok THEN "Ok" ELSE "Err")
              /\ UnwrappedRecv.ok => last.msg = Some(UnwrappedRecv.msgs)

C21_Witness ==
    /\ ~transport.overlapped
    /\ last.op = "recv_messages"
    /\ last.user = "B"
    /\ last.result = "Ok"
    /\ Len(Get(last.msg)) = 2
    /\ \E i \in 1..2 : Get(last.msg)[i] = "m2"

C23_BranchAnnouncementClonesPermissions ==
    (Received(BRANCH_ANNOUNCEMENT) /\ last.result = "Ok") =>
        LET m == Get(last.msg)
            address == Get(last.address)
            from_topic == m.topic
            to_topic == m.body.topic
        IN  /\ get_cursor(After.cursor_store, from_topic, m.publisher) = Some(m.seq)
            /\ to_topic \in DOMAIN After.cursor_store
            /\ to_topic \in After.topics
            /\ \A p \in DOMAIN After.cursor_store[from_topic].cursors :
                  /\ p \in DOMAIN After.cursor_store[to_topic].cursors
                  /\ After.cursor_store[to_topic].cursors[p] = INIT_MESSAGE_NUM
            /\ get_latest_link(After.cursor_store, to_topic) = Some(address.relative)
            /\ get_latest_link(After.cursor_store, from_topic)
                   = get_latest_link(Before.cursor_store, from_topic)

\* The linked snapshot a lean user evicts when it stores the snapshot of
\* the last message: none when the message is linked to the announcement.
EvictsLinked ==
    /\ Before.lean
    /\ ~(IsSome(Before.stream_address)
         /\ Get(Before.stream_address).relative = Get(Get(last.msg).linked))

\* C24: handling an unsubscription removes the unsubscribing identifier
\* from the receiver's subscribers and leaves its cursor store unchanged;
\* nothing else changes but the snapshot store, which gains the snapshot of
\* the unsubscription.
C24_UnsubscriptionOnlyRemovesSubscriber ==
    (Received(UNSUBSCRIPTION) /\ last.result = "Ok") =>
        After = [Before EXCEPT
                    !.subscribers = @ \ {Get(last.msg).body.id},
                    !.spongos_store = Put(@, Get(last.address).relative,
                                          Get(last.msg).spongos)]

\* C24 (amended): the same, and a lean receiver also drops the snapshot of
\* the message the unsubscription is linked to, unless that message is the
\* stream announcement.
C24_UnsubscriptionRemovesSubscriberEvictsLinked ==
    (Received(UNSUBSCRIPTION) /\ last.result = "Ok") =>
        After = [Before EXCEPT
                    !.subscribers = @ \ {Get(last.msg).body.id},
                    !.spongos_store =
                        Put(IF EvictsLinked THEN Del(@, Get(Get(last.msg).linked)) ELSE @,
                            Get(last.address).relative, Get(last.msg).spongos)]

C24_LeanReceiverEvicted ==
    /\ Received(UNSUBSCRIPTION)
    /\ last.result = "Ok"
    /\ EvictsLinked
    /\ Get(Get(last.msg).linked) \in DOMAIN Before.spongos_store
    /\ Get(Get(last.msg).linked) \notin DOMAIN After.spongos_store
    /\ After.cursor_store = Before.cursor_store

C24_Witness ==
    /\ Received(UNSUBSCRIPTION)
    /\ last.result = "Ok"
    /\ Get(last.msg).body.id \in Before.subscribers
    /\ Get(last.msg).body.id \notin After.subscribers
    /\ After.cursor_store = Before.cursor_store

\* The entries stored for id in a branch, as permission-cursor pairs.
EntriesIn(cs, topic, id) ==
    {<<p, cs[topic].cursors[p]>> : p \in EntriesOf(cs, topic, id)}

\* C25: after unsubscribe returns Ok for a user that had cursor c in the
\* base branch, with any permission, the user's own entry in the base
\* branch is Read(self) with cursor c + 1 and its entries in all other
\* branches are unchanged.
C25_UnsubscribeLeavesReadAtNextCursor ==
    (last.op = "unsubscribe" /\ last.result = "Ok") =>
        LET id == Get(Before.user_id)
            base == Before.base_branch
            c == Get(get_cursor(Before.cursor_store, base, id))
        IN  /\ EntriesIn(After.cursor_store, base, id) = {<<Read(id), c + 1>>}
            /\ \A t \in DOMAIN Before.cursor_store \ {base} :
                  EntriesIn(After.cursor_store, t, id) = EntriesIn(Before.cursor_store, t, id)

\* C26: after a keyload K on branch T is handled, every identifier K lists
\* that has an entry in T is stored with exactly the permission K lists for
\* it; an identifier listed as Read is not left ReadWrite or Admin in T.
C26_ListedPermissionIsStored ==
    KeyloadHandled =>
        LET m == Get(last.msg)
        IN  \A p \in m.body.subscribers :
                EntriesOf(After.cursor_store, m.topic, p.id) # {}
                    => get_permission(After.cursor_store, m.topic, p.id) = Some(p)

\* The last call was insert_cursor(topic, perm, cursor) on an existing branch.
InsertedCursor ==
    /\ last.op = "insert_cursor"
    /\ last.topic \in DOMAIN Before.cursor_store

\* C27: insert_cursor(topic, perm, cursor) on an existing branch replaces an
\* entry of perm's identifier that has another permission by perm with the
\* cursor that was stored (the argument is ignored), overwrites the cursor
\* of an entry with the same permission, and inserts (perm, cursor) when the
\* identifier has no entry.
C27_InsertCursorRebindsKeepingCursor ==
    InsertedCursor =>
        LET perm == Get(last.perm)
            old == EntriesIn(Before.cursor_store, last.topic, perm.id)
            new == EntriesIn(After.cursor_store, last.topic, perm.id)
        IN  IF old = {}
            THEN new = {<<perm, Get(last.cursor)>>}
            ELSE \A e \in old :
                    IF e[1] = perm
                    THEN new = {<<perm, Get(last.cursor)>>}
                    ELSE new = {<<perm, e[2]>>}

C27_Witness ==
    /\ InsertedCursor
    /\ LET perm == Get(last.perm)
       IN  /\ EntriesIn(Before.cursor_store, last.topic, perm.id) = {<<Read(perm.id), 2>>}
           /\ perm = Admin(perm.id)
           /\ Get(last.cursor) = 1
           /\ EntriesIn(After.cursor_store, last.topic, perm.id) = {<<perm, 2>>}

\* The calls that store cursors of one branch: the sends and the handling of
\* keyloads, branch announcements, unsubscriptions and packets.
BranchOps ==
    {"new_branch", "unsubscribe", "send_keyload", "send_keyload_for_all",
     "send_keyload_for_all_rw", "send_signed_packet", "send_tagged_packet"}

BranchCall ==
    \/ last.op \in BranchOps /\ IsSome(last.msg)
    \/ /\ last.op = "receive_message"
       /\ IsSome(last.msg)
       /\ Get(last.msg).type \in SequencedTypes \cup {UNSUBSCRIPTION}

\* The branches a call is about: the topic of its message and, for a branch
\* announcement, the branch it starts.
BranchesOf(m) ==
    {m.topic} \cup (IF m.type = BRANCH_ANNOUNCEMENT THEN {m.body.topic} ELSE {})

\* C28: sending or handling a keyload, branch announcement, unsubscription
\* or packet on branch T changes cursor-store entries of branch T only: the
\* permissions and cursors stored in every other branch are unchanged.
C28_OtherBranchesUntouched ==
    BranchCall =>
        \A t \in DOMAIN Before.cursor_store \ BranchesOf(Get(last.msg)) :
            /\ t \in DOMAIN After.cursor_store
            /\ After.cursor_store[t].cursors = Before.cursor_store[t].cursors

Removed == last.op = "remove"

\* C29: remove(id) removes the entry for id from every branch, so that
\* get_cursor(topic, id) and get_permission(topic, id) are None for every
\* topic afterwards, leaves the entries of all other identifiers and the
\* latest links untouched, and returns true iff an entry was removed.
C29_RemoveDropsIdEverywhere ==
    Removed =>
        LET id == Get(last.id)
            before == Before.cursor_store
            after == After.cursor_store
        IN  /\ DOMAIN after = DOMAIN before
            /\ \A t \in Topics :
                  /\ get_cursor(after, t, id) = None
                  /\ get_permission(after, t, id) = None
            /\ \A t \in DOMAIN before :
                  /\ after[t].latest_link = before[t].latest_link
                  /\ \A p \in DOMAIN before[t].cursors :
                        p.id # id => /\ p \in DOMAIN after[t].cursors
                                     /\ after[t].cursors[p] = before[t].cursors[p]
                  /\ DOMAIN after[t].cursors \subseteq DOMAIN before[t].cursors
            /\ Get(last.returned) = (after # before)

C29_Witness ==
    /\ Removed
    /\ Get(last.returned) = TRUE
    /\ \A t \in Topics :
          /\ t \in DOMAIN Before.cursor_store
          /\ Cardinality(DOMAIN Before.cursor_store[t].cursors) = 2
          /\ Cardinality(DOMAIN After.cursor_store[t].cursors) = 1

C29_NothingToRemove ==
    /\ Removed
    /\ Get(last.returned) = FALSE
    /\ Before.cursor_store # EmptyMap

\* C30: new_branch(topic) returns true iff no branch for topic existed
\* before the call, and leaves the cursors and the latest link of a branch
\* that exists already as they were.
C30_NewBranchKeepsExisting ==
    last.op = "new_branch" /\ IsSome(last.returned) =>
        /\ Get(last.returned) = (last.topic \notin DOMAIN Before.cursor_store)
        /\ last.topic \in DOMAIN After.cursor_store
        /\ last.topic \in DOMAIN Before.cursor_store =>
              After.cursor_store[last.topic] = Before.cursor_store[last.topic]

\* C31: new_branch(from_topic, to_topic) never changes the sender's own
\* permission in from_topic: a user holding ReadWrite there still holds
\* ReadWrite, and not Admin, after a successful new_branch.
C31_NewBranchKeepsOwnPermission ==
    (last.op = "new_branch" /\ last.result = "Ok") =>
        permission(After, last.topic) = permission(Before, last.topic)

\* The permission tag every identifier has in a branch of a cursor store.
TagsIn(cs, topic) ==
    [id \in Ids |->
        IF get_permission(cs, topic, id) = None
        THEN "none"
        ELSE Get(get_permission(cs, topic, id)).tag]

\* The last call handled a keyload whose recipient had, before the call,
\* the view of the branch its sender had before sending it, and the sender
\* has sent nothing on the branch since.
KeyloadHandledOnSharedView ==
    /\ KeyloadHandled
    /\ LET m == Get(last.msg)
           address == Get(last.address)
       IN  /\ m.publisher \in Users
           /\ address \in DOMAIN last.sent
           /\ m.topic \in DOMAIN last.sent[address].cursor_store
           /\ TagsIn(last.sent[address].cursor_store, m.topic)
                  = TagsIn(Before.cursor_store, m.topic)
           /\ get_latest_link(users[m.publisher].cursor_store, m.topic)
                  = Some(address.relative)

\* C32: after an admin has sent a keyload on branch T and a recipient that
\* shared its view of T has handled it, the two cursor stores agree on T:
\* every identifier has the same permission tag in both, an identifier the
\* keyload omits being Read in the sender's store as in the recipient's.
C32_SenderAndRecipientAgree ==
    KeyloadHandledOnSharedView =>
        TagsIn(users[Get(last.msg).publisher].cursor_store, Get(last.msg).topic)
            = TagsIn(After.cursor_store, Get(last.msg).topic)

C32_AgreementReached ==
    /\ KeyloadHandledOnSharedView
    /\ TagsIn(Before.cursor_store, Get(last.msg).topic) # TagsIn(After.cursor_store, Get(last.msg).topic)
    /\ TagsIn(users[Get(last.msg).publisher].cursor_store, Get(last.msg).topic)
            = TagsIn(After.cursor_store, Get(last.msg).topic)

\* C33: in every reachable state of every user, lean or not, the snapshot
\* store has an entry for the stream address' message id whenever
\* stream_address is set, so that the expect on the announcement snapshot
\* in send_keyload and handle_keyload never fails.
C33_AnnouncementSnapshotKept ==
    /\ \A u \in Users :
          IsSome(users[u].stream_address) =>
              Get(users[u].stream_address).relative \in DOMAIN users[u].spongos_store
    /\ ~(last.result = "Panic" /\ last.err = "no announcement spongos")

C33_Witness ==
    /\ last.user = "B"
    /\ last.op = "receive_message"
    /\ last.result = "Ok"
    /\ Before.lean
    /\ IsSome(Before.stream_address)
    /\ Get(last.msg).type \in {SIGNED_PACKET, TAGGED_PACKET}
    /\ Get(Get(last.msg).linked) # Get(Before.stream_address).relative
    /\ Get(Get(last.msg).linked) \notin DOMAIN After.spongos_store
    /\ Get(After.stream_address).relative \in DOMAIN After.spongos_store

\* C34: after any announcement is handled, the identifier that holds the
\* Admin cursor seeded in the base branch is author_identifier, also when
\* the publisher of the announcement's header is not the author its body
\* names.
C34_SeededAdminIsAuthor ==
    (Received(ANNOUNCEMENT) /\ last.result = "Ok") =>
        /\ IsSome(After.author_identifier)
        /\ After.base_branch \in DOMAIN After.cursor_store
        /\ \A p \in DOMAIN After.cursor_store[After.base_branch].cursors :
              is_admin(p) => Some(p.id) = After.author_identifier
        /\ \E p \in DOMAIN After.cursor_store[After.base_branch].cursors :
              is_admin(p)

\* C35: under any sequence of send operations of users sharing one
\* transport, repeated new_branch calls included, the transport never
\* holds more than one message at the same address.
C35_OneMessagePerAddress ==
    \A address \in DOMAIN transport : Len(transport[address]) <= 1

\* The last call handled the stream announcement again: the user had
\* handled it before, at the same address.
AnnouncementHandledAgain ==
    /\ Received(ANNOUNCEMENT)
    /\ last.result = "Ok"
    /\ Before.stream_address = last.address

\* C36: handling the stream announcement is idempotent: a user that has
\* processed the announcement and later messages and handles the same
\* announcement again ends in the state it was in, with all the cursors,
\* permissions and the latest link of the base branch.
C36_AnnouncementIdempotent ==
    AnnouncementHandledAgain => After = Before

\* The last call handled a keyload of a publisher stored as Admin.
AdminKeyloadReceived ==
    /\ Received(KEYLOAD)
    /\ Get(last.msg).topic \in Before.topics
    /\ IsSome(PublisherPermBefore)
    /\ is_admin(Get(PublisherPermBefore))

\* C37: handling a keyload never returns an orphan and does not depend on
\* the snapshot of the message its header links to: a keyload of an admin
\* that unwraps against the announcement snapshot is handled with Ok, its
\* snapshot is stored and the latest link of its topic is its address,
\* whether or not the linked message's snapshot is in the store.
C37_KeyloadAnchorsToAnnouncement ==
    /\ Received(KEYLOAD) => last.result # "Orphan"
    /\ AdminKeyloadReceived =>
          LET m == Get(last.msg)
              address == Get(last.address)
              announcement == spongos_get(Before, Get(Before.stream_address).relative)
          IN  (IsSome(announcement) /\ unwrap_ok(m, Get(announcement))) =>
                  /\ last.result = "Ok"
                  /\ spongos_get(After, address.relative) = Some(m.spongos)
                  /\ get_latest_link(After.cursor_store, m.topic) = Some(address.relative)

C37_Witness ==
    /\ AdminKeyloadReceived
    /\ last.result = "Ok"
    /\ IsSome(Get(last.msg).linked)
    /\ Get(Get(last.msg).linked) # Get(Before.stream_address).relative
    /\ Get(Get(last.msg).linked) \notin DOMAIN Before.spongos_store
    /\ Get(last.address).relative \in DOMAIN After.spongos_store

\* The messages the log records for one address, in the order they were sent.
SentTo(address) ==
    LET at(e) == e[1] = address
        s == SelectSeq(SendLog, at)
    IN  [i \in 1..Len(s) |-> s[i][2]]

\* C38: the bucket transport never overwrites: recv_messages on a link
\* returns exactly the messages sent to that link, in the order they were
\* sent (a second send to the same link appends), and on a link never sent to
\* it returns an error, not an empty sequence.
C38_BucketNeverOverwrites ==
    /\ \A address \in BucketAddresses :
          LET r == recv_messages(transport, address)
          IN  IF SentTo(address) = <<>>
              THEN ~r.ok
              ELSE r.ok /\ r.msgs = SentTo(address)
    /\ last.op = "recv_messages" =>
          IF SentTo(Get(last.address)) = <<>>
          THEN last.result = "Err" /\ last.err = "MessageLinkNotFound"
          ELSE last.result = "Ok" /\ Get(last.msg) = SentTo(Get(last.address))

\* recv_messages returned two different messages sent to one link, in send
\* order, while another link was never sent to.
C38_Witness ==
    /\ last.op = "recv_messages"
    /\ last.result = "Ok"
    /\ Get(last.msg) = <<"m2", "m1">>
    /\ \E address \in BucketAddresses : address \notin DOMAIN transport

----------------------------------------------------------------------------
(* The size of a backup.  sizeof::Context counts the bytes of each masked  *)
(* value and wrap::Context writes them; both walk the State field by       *)
(* field.  mask_width is the encoded length of one value of the ddml       *)
(* types; an Identifier is a one-byte tag followed by its 32-byte key.     *)

MacSize == 32

RECURSIVE SumOver(_, _)
SumOver(S, f) ==
    IF S = {}
    THEN 0
    ELSE LET x == CHOOSE y \in S : TRUE
         IN  f[x] + SumOver(S \ {x}, f)

mask_width(kind, v) ==
    CASE kind = "Uint8" -> 1
      [] kind = "Size" -> IF v = 0 THEN 1 ELSE 2
      [] kind = "NBytes" -> v
      [] kind = "Mac" -> v
      [] kind = "Identity" -> 33
      [] kind = "Address" -> 52
      [] kind = "MsgId" -> 12
      [] kind = "Spongos" -> 200
      [] kind = "Topic" -> 3
      [] kind = "Duration" -> IF v = "-" THEN 0 ELSE 9

identifier_sizeof(id) == mask_width("Uint8", 0) + mask_width("NBytes", 32)

identifier_wrap(id) == mask_width("Uint8", 0) + mask_width("NBytes", 32)

state_sizeof(st) ==
    LET maybe(o, w) == mask_width("Uint8", 0) + (IF IsSome(o) THEN w ELSE 0)
        permissioned(p) == mask_width("Uint8", 0) + identifier_sizeof(p.id)
                               + mask_width("Duration", p.dur)
        topics == {tp \in st.topics : IsSome(get_latest_link(st.cursor_store, tp))}
        cursors(tp) == st.cursor_store[tp].cursors
    IN  maybe(st.user_id, mask_width("Identity", 0))
        + maybe(st.stream_address, mask_width("Address", 0))
        + maybe(st.author_identifier,
                IF IsSome(st.author_identifier)
                THEN identifier_sizeof(Get(st.author_identifier)) ELSE 0)
        + mask_width("Topic", st.base_branch)
        + mask_width("Size", Cardinality(DOMAIN st.spongos_store))
        + SumOver(DOMAIN st.spongos_store,
                  [m \in DOMAIN st.spongos_store |->
                      mask_width("MsgId", m) + mask_width("Spongos", st.spongos_store[m])])
        + mask_width("Size", Cardinality(topics))
        + SumOver(topics,
                  [tp \in topics |->
                      mask_width("Topic", tp)
                      + mask_width("MsgId", Get(get_latest_link(st.cursor_store, tp)))
                      + mask_width("Size", Cardinality(DOMAIN cursors(tp)))
                      + SumOver(DOMAIN cursors(tp),
                                [p \in DOMAIN cursors(tp) |->
                                    permissioned(p) + mask_width("Size", cursors(tp)[p])])])
        + mask_width("Size", Cardinality(st.subscribers))
        + SumOver(st.subscribers, [s \in st.subscribers |-> identifier_sizeof(s)])
        + mask_width("Size", 0)
        + mask_width("Uint8", IF st.lean THEN 1 ELSE 0)
        + mask_width("Mac", MacSize)

\* A wrap that does not write the latest link of a topic.
state_wrap_without_latest_link(st) ==
    LET maybe(o, w) == mask_width("Uint8", 0) + (IF IsSome(o) THEN w ELSE 0)
        permissioned(p) == mask_width("Uint8", 0) + identifier_wrap(p.id)
                               + mask_width("Duration", p.dur)
        topics == {tp \in st.topics : IsSome(get_latest_link(st.cursor_store, tp))}
        cursors(tp) == st.cursor_store[tp].cursors
    IN  maybe(st.user_id, mask_width("Identity", 0))
        + maybe(st.stream_address, mask_width("Address", 0))
        + maybe(st.author_identifier,
                IF IsSome(st.author_identifier)
                THEN identifier_wrap(Get(st.author_identifier)) ELSE 0)
        + mask_width("Topic", st.base_branch)
        + mask_width("Size", Cardinality(DOMAIN st.spongos_store))
        + SumOver(DOMAIN st.spongos_store,
                  [m \in DOMAIN st.spongos_store |->
                      mask_width("MsgId", m) + mask_width("Spongos", st.spongos_store[m])])
        + mask_width("Size", Cardinality(topics))
        + SumOver(topics,
                  [tp \in topics |->
                      mask_width("Topic", tp)
                      + mask_width("Size", Cardinality(DOMAIN cursors(tp)))
                      + SumOver(DOMAIN cursors(tp),
                                [p \in DOMAIN cursors(tp) |->
                                    permissioned(p) + mask_width("Size", cursors(tp)[p])])])
        + mask_width("Size", Cardinality(st.subscribers))
        + SumOver(st.subscribers, [s \in st.subscribers |-> identifier_wrap(s)])
        + mask_width("Size", 0)
        + mask_width("Uint8", IF st.lean THEN 1 ELSE 0)
        + mask_width("Mac", MacSize)

state_wrap(st) ==
    LET maybe(o, w) == mask_width("Uint8", 0) + (IF IsSome(o) THEN w ELSE 0)
        permissioned(p) == mask_width("Uint8", 0) + identifier_wrap(p.id)
                               + mask_width("Duration", p.dur)
        topics == {tp \in st.topics : IsSome(get_latest_link(st.cursor_store, tp))}
        cursors(tp) == st.cursor_store[tp].cursors
    IN  maybe(st.user_id, mask_width("Identity", 0))
        + maybe(st.stream_address, mask_width("Address", 0))
        + maybe(st.author_identifier,
                IF IsSome(st.author_identifier)
                THEN identifier_wrap(Get(st.author_identifier)) ELSE 0)
        + mask_width("Topic", st.base_branch)
        + mask_width("Size", Cardinality(DOMAIN st.spongos_store))
        + SumOver(DOMAIN st.spongos_store,
                  [m \in DOMAIN st.spongos_store |->
                      mask_width("MsgId", m) + mask_width("Spongos", st.spongos_store[m])])
        + mask_width("Size", Cardinality(topics))
        + SumOver(topics,
                  [tp \in topics |->
                      mask_width("Topic", tp)
                      + mask_width("MsgId", Get(get_latest_link(st.cursor_store, tp)))
                      + mask_width("Size", Cardinality(DOMAIN cursors(tp)))
                      + SumOver(DOMAIN cursors(tp),
                                [p \in DOMAIN cursors(tp) |->
                                    permissioned(p) + mask_width("Size", cursors(tp)[p])])])
        + mask_width("Size", Cardinality(st.subscribers))
        + SumOver(st.subscribers, [s \in st.subscribers |-> identifier_wrap(s)])
        + mask_width("Size", 0)
        + mask_width("Uint8", IF st.lean THEN 1 ELSE 0)
        + mask_width("Mac", MacSize)

\* User::backup: the buffer it allocates and the bytes it writes into it
\* (the squeezed key MAC, then the wrapped state).
backup_buf_size(st) == state_sizeof(st) + 32

backup_written(st) == mask_width("Mac", MacSize) + state_wrap(st)

====
